---- MODULE Spec2Model ----
(***************************************************************************)
(* Historia-AI: the planner's orchestration / revision control loop.       *)
(*                                                                         *)
(* Python strings are TLA+ strings; the string helpers below compute what  *)
(* the Python built-ins compute (substring test, split, slice, strip,      *)
(* lower), so every test the code makes on a text is made on the text.     *)
(*                                                                         *)
(* The pipeline is checked in projections.  Each specification keeps the   *)
(* variables one part of _process_lesson / planner_agent reads and writes  *)
(* and steps through that part's code; the other variables stay at their   *)
(* initial values.                                                         *)
(***************************************************************************)
EXTENDS Integers, Sequences, FiniteSets, TLC

VARIABLES
    \* ---- the job (_orchestrate_history_package, lines 672-698)
    num_lessons,        \* len(lessons) of the Unit Plan
    lesson_no,          \* index of the lesson being processed
    evidence,           \* evidence text of the current lesson
    \* ---- _gather_evidence (lines 365-402)
    gpc,                \* position inside _gather_evidence
    topics,             \* the lesson's topic list
    unique_topics,      \* the deduplicated, capped list
    gi,                 \* index of the topic the for loop is at
    evidence_parts,     \* blocks collected so far
    evidence_cache,     \* shared_context["evidence_cache"]
    fetch_count,        \* ghost: worker_agent calls per normalized topic
    first_text,         \* ghost: what the first worker_agent call returned
    processed,          \* ghost: topics looked up or researched this lesson
    last_lookup,        \* ghost: the block the last loop iteration produced
    \* ---- fact-check / revision loop of _process_lesson (lines 456-574)
    rpc,                \* position inside _process_lesson
    stub,               \* what the Generation Service can answer in this run
    summary,            \* current draft
    fact_check_result,  \* last text returned by fact_checker_agent
    revision_attempt,   \* the loop counter
    regens,             \* ghost: generate(revision_prompt) calls this lesson
    gate_calls,         \* ghost: fact_checker_agent calls this lesson
    first_result,       \* ghost: the Gate's first response for this lesson
    lesson_summaries,   \* shared_context["lesson_summaries"]
    full_summaries,     \* shared_context["full_summaries"]
    fact_check_stats,   \* shared_context["fact_check_stats"]
    sources,            \* shared_context["sources"]
    checked_summary,    \* ghost: the draft the last fact_checker_agent call was given
    \* ---- documents, deck hand-off and poll (lines 576-634, 700-755)
    dpc,                \* position inside _process_lesson / the orchestrator
    files,              \* names of the files that exist under outputs/
    lesson_name,        \* full_lesson_name of the current lesson
    docx_path,          \* docx_path of the current lesson
    ppt_filename,       \* ppt_filename of the current lesson
    ppt_ready,          \* ppt_ready of the current lesson
    polls,              \* ghost: ppt_path.exists() checks made this lesson
    sleeps,             \* ghost: asyncio.sleep(0.5) calls made this lesson
    saw_file,           \* ghost: a check of this lesson found the file
    ppt_queue,          \* queues.message_bus.ppt_queue
    next_id,            \* ghost: stands for uuid.uuid4()
    lesson_results,     \* lesson_results of the orchestrator
    last_write,         \* ghost: the last file written and whether it replaced one
    \* ---- planner_agent (lines 796-810) and route_task (bot/main.py 73-91)
    ppc,                \* position inside planner_agent / the orchestrator
    task_queue,         \* queues.message_bus.task_queue
    result_queue,       \* queues.message_bus.result_queue
    task_str,           \* task_str of planner_agent
    output,             \* output of planner_agent
    raised,             \* ghost: the current job raised
    taken,              \* ghost: task_queue.get() calls that returned
    task_log,           \* ghost: every task route_task has queued, in order
    served,             \* ghost: one entry per result_queue.put(output)
    job_calls,          \* ghost: what the current job has done so far
    intent_lessons,     \* num_lessons of the orchestrator: the count taken from the request
    \* ---- fact_checker_agent (agents/fact_checker_agent.py, lines 32-78)
    fpc,                \* position inside fact_checker_agent
    fc_evidence,        \* the evidence argument of the call
    fc_return,          \* what the last call returned
    generate_calls,     \* ghost: generate calls made by the call
    fc_runs,            \* ghost: calls made so far
    \* ---- the report of _orchestrate_history_package (lines 700-793)
    quiz_path,          \* quiz_path of the orchestrator
    output_lines,       \* output_lines of the orchestrator
    \* ---- slide generation of _process_lesson (lines 581-634)
    spc,                \* position inside _process_lesson
    slides_json_str,    \* slides_json_str of the current lesson
    slides_list,        \* slides_list of the current lesson
    slide_titles,       \* shared_context["slide_titles"]
    slide_error,        \* ghost: the exception that ended the job, "" if none
    \* ---- generate (utils/llm.py, lines 19-69)
    llm_pc,             \* position inside generate
    llm_attempt,        \* attempt of the for loop
    llm_return,         \* what generate returned
    llm_log,            \* ghost: the outcome of each request made, in order
    llm_sleeps,         \* ghost: the asyncio.sleep arguments, in order
    \* ---- task_cmd and route_task (bot/main.py, lines 73-165)
    calls,              \* per caller: position, query, review, messages sent, result
    side_count,         \* ghost: deck-builder messages put on result_queue
    getters             \* result_queue._getters: the callers suspended in get()

jobVars == <<num_lessons, lesson_no, evidence>>

gatherVars == <<gpc, topics, unique_topics, gi, evidence_parts, evidence_cache,
                fetch_count, first_text, processed, last_lookup>>

revVars == <<rpc, stub, summary, fact_check_result, revision_attempt, regens,
             gate_calls, first_result, lesson_summaries, full_summaries,
             fact_check_stats, sources, checked_summary>>

deckVars == <<dpc, files, lesson_name, docx_path, ppt_filename, ppt_ready, polls,
              sleeps, saw_file, ppt_queue, next_id, lesson_results, last_write>>

planVars == <<ppc, task_queue, result_queue, task_str, output, raised, taken,
              task_log, served, job_calls, intent_lessons>>

gateVars == <<fpc, fc_evidence, fc_return, generate_calls, fc_runs>>

reportVars == <<quiz_path, output_lines>>

\* the variables of the parts added after the first five
slideVars == <<spc, slides_json_str, slides_list, slide_titles, slide_error>>

llmVars == <<llm_pc, llm_attempt, llm_return, llm_log, llm_sleeps>>

botVars == <<calls, side_count, getters>>

extraVars == <<reportVars, slideVars, llmVars, botVars>>

vars == <<jobVars, gatherVars, revVars, deckVars, planVars, gateVars, extraVars>>

\* the variables the revision part leaves alone
notRev == <<gatherVars, deckVars, planVars, gateVars, extraVars>>

\* the variables _gather_evidence leaves alone
notGather == <<revVars, deckVars, planVars, gateVars, extraVars>>

\* the variables the documents and the deck hand-off leave alone
notDeck == <<evidence, gatherVars, revVars, planVars, gateVars, extraVars>>

\* the variables planner_agent's loop and route_task leave alone
notPlan == <<evidence, gatherVars, revVars, deckVars, gateVars, extraVars>>

\* the variables a call of fact_checker_agent leaves alone
notGate == <<jobVars, gatherVars, revVars, deckVars, planVars, extraVars>>

\* the variables slide generation and the hand-off leave alone
notSlides == <<evidence, gatherVars, revVars, planVars, gateVars, reportVars, llmVars, botVars,
               dpc, files, lesson_name, docx_path, ppt_filename, ppt_ready, polls,
               sleeps, saw_file, last_write>>

\* the variables a call of generate leaves alone
notLlm == <<jobVars, gatherVars, revVars, deckVars, planVars, gateVars, reportVars,
            slideVars, botVars>>

\* the variables task_cmd and route_task leave alone
notBot == <<jobVars, gatherVars, revVars, deckVars, gateVars, reportVars, slideVars,
            llmVars, ppc, task_str, output, raised, taken, task_log, served, job_calls, intent_lessons>>

\* the variables the lessons and the report of one job leave alone
notReport == <<gatherVars, planVars, gateVars, slideVars, llmVars, botVars,
               dpc, files, lesson_name, docx_path, ppt_filename, ppt_ready, polls,
               sleeps, saw_file, last_write>>

-----------------------------------------------------------------------------
(* Python string built-ins                                                 *)

Min(a, b) == IF a < b THEN a ELSE b

\* s[i-1] as a one-character string
CharAt(s, i) == SubSeq(s, i, i)

\* s[:n]
Prefix(s, n) == SubSeq(s, 1, Min(n, Len(s)))

\* s[n:]  (n counted from 0 as in Python)
Suffix(s, n) == SubSeq(s, n + 1, Len(s))

\* s.find(sub) + 1: the 1-based place of the first occurrence, 0 when absent
Find(s, sub) ==
    LET hits == {i \in 1..(Len(s) + 1 - Len(sub)) : SubSeq(s, i, i + Len(sub) - 1) = sub}
    IN  IF hits = {} THEN 0 ELSE CHOOSE i \in hits : \A j \in hits : i <= j

\* sub in s
Contains(s, sub) == Find(s, sub) # 0

\* s.split(sep)[1]; defined when sep in s
SplitSecond(s, sep) ==
    LET rest == Suffix(s, Find(s, sep) + Len(sep) - 1)
        nxt  == Find(rest, sep)
    IN  IF nxt = 0 THEN rest ELSE Prefix(rest, nxt - 1)

Whitespace == {" ", "\n", "\t"}

RECURSIVE LStrip(_)
LStrip(s) == IF Len(s) > 0 /\ CharAt(s, 1) \in Whitespace THEN LStrip(Suffix(s, 1)) ELSE s

RECURSIVE RStrip(_)
RStrip(s) == IF Len(s) > 0 /\ CharAt(s, Len(s)) \in Whitespace THEN RStrip(Prefix(s, Len(s) - 1)) ELSE s

\* s.strip()
Strip(s) == RStrip(LStrip(s))

RECURSIVE SplitAll(_, _)
\* s.split(sep)
SplitAll(text, sep) ==
    LET i == Find(text, sep)
    IN  IF i = 0 THEN <<text>>
        ELSE <<Prefix(text, i - 1)>> \o SplitAll(Suffix(text, i - 1 + Len(sep)), sep)

RECURSIVE StripAndDrop(_)
\* [s.strip() for s in parts if s.strip()]
StripAndDrop(parts) ==
    IF Len(parts) = 0 THEN <<>>
    ELSE (IF Strip(Head(parts)) = "" THEN <<>> ELSE <<Strip(Head(parts))>>)
            \o StripAndDrop(Tail(parts))

UpperLetters == "ABCDEFGHIJKLMNOPQRSTUVWXYZ"
LowerLetters == "abcdefghijklmnopqrstuvwxyz"
Digits == "0123456789"

\* the lower-case letter of each upper-case letter
ToLower == [c \in {CharAt(UpperLetters, i) : i \in 1..26} |-> CharAt(LowerLetters, Find(UpperLetters, c))]

LowerChar(c) == IF c \in DOMAIN ToLower THEN ToLower[c] ELSE c

RECURSIVE Lower(_)
\* s.lower()
Lower(s) == IF Len(s) = 0 THEN s ELSE LowerChar(CharAt(s, 1)) \o Lower(Suffix(s, 1))

\* str(n) for 0 <= n <= 99
Str(n) == IF n < 10 THEN CharAt(Digits, n + 1)
          ELSE CharAt(Digits, (n \div 10) + 1) \o CharAt(Digits, (n % 10) + 1)

-----------------------------------------------------------------------------
(* fact_checker_agent (agents/fact_checker_agent.py)                       *)

\* `not evidence or len(evidence.strip()) < 20`
MinEvidenceLen == 20

\* the length is taken of the text as passed
NoEvidenceUnstripped(ev) == ev = "" \/ Len(ev) < MinEvidenceLen

NoEvidence(ev) == ev = "" \/ Len(Strip(ev)) < MinEvidenceLen

\* the text returned without calling generate (the leading emoji is left out)
NoEvidenceVerdict ==
    "Fact-Checker: No evidence provided yet, cannot verify reliably.\nVerdict: UNKNOWN\nNotes: Retrieve evidence first (e.g., Britannica) to enable verification."

\* the number of generate calls one fact_checker_agent call makes
GateGenerateCalls(ev) == IF NoEvidence(ev) THEN 0 ELSE 1

\* the return value; llm is what generate answers if it is called
fact_checker_agent(ev, llm) ==
    IF NoEvidence(ev) THEN NoEvidenceVerdict ELSE "Fact-Checker Result:\n" \o llm

-----------------------------------------------------------------------------
(* The tests _process_lesson makes on the Gate's text                      *)

max_revision_attempts == 4

\* "GO/NO-GO: GO" in fact_check_result
SaysGo(r) == Contains(r, "GO/NO-GO: GO")

\* is_no_go
is_no_go(r) == Contains(r, "GO/NO-GO: NO-GO")

\* has_warnings
has_warnings(r) ==
    Contains(r, "Warnings:") /\ ~Contains(Prefix(SplitSecond(r, "Warnings:"), 20), "None")

\* the loop goes round once more without the cap on the attempts
LoopContinuesUncapped(r, attempt) ==
    ~SaysGo(r) /\ (is_no_go(r) \/ has_warnings(r))

\* the loop stops on a NO-GO that carries no warnings
LoopContinuesWarningsOnly(r, attempt) ==
    ~SaysGo(r) /\ attempt < max_revision_attempts /\ has_warnings(r)

\* the while condition and the break: TRUE when the body regenerates
LoopContinues(r, attempt) ==
    ~SaysGo(r) /\ attempt < max_revision_attempts /\ (is_no_go(r) \/ has_warnings(r))

\* the verdict goes by the number of attempts, not by the Gate's last answer
VerdictOfByAttempts(r, attempt) ==
    IF attempt > 0 THEN "GO (revised " \o Str(attempt) \o "x)"
    ELSE IF SaysGo(r) THEN "GO" ELSE "WARNING (tried 0 revisions)"

\* the verdict string appended to fact_check_stats
VerdictOf(r, attempt) ==
    IF SaysGo(r)
    THEN IF attempt > 0 THEN "GO (revised " \o Str(attempt) \o "x)" ELSE "GO"
    ELSE "WARNING (tried " \o Str(attempt) \o " revisions)"

-----------------------------------------------------------------------------
(* What the stubs can answer                                               *)

\* texts of the Generation Service to the fact-check prompt
GateGo        == "GO/NO-GO: GO\nConfidence: High\nWarnings (if any): None"
GateNoGo      == "GO/NO-GO: NO-GO\nConfidence: Low\nWarnings (if any): the date is wrong"
GateNoGoNone  == "GO/NO-GO: NO-GO\nConfidence: Low\nWarnings: None"
GateUnsure    == "Confidence: Low\nReason: cannot tell\nWarnings: None"
GateWarnOnly  == "Confidence: Low\nWarnings: the date of the battle is wrong. None of it is sourced"
GateError     == "Error 503 after 3 attempts: Server temporarily unavailable"

GateTexts == {GateGo, GateNoGo, GateNoGoNone, GateUnsure, GateWarnOnly, GateError}

\* answers that are neither GO nor NO-GO, by what follows the label of the
\* warnings: nothing, "None", or no label of that spelling at all
GateUnsureBlank  == "Confidence: Low\nReason: cannot tell\nWarnings:"
GateUnsurePrompt == "GO/NO-GO: UNKNOWN\nConfidence: Low\nWarnings (if any): None"

UnsureTexts == {GateGo, GateUnsure, GateUnsureBlank, GateUnsurePrompt}

\* the warnings field of a response: the rest of the line after the label, in
\* either spelling, trimmed; "" when the response has no such line
WarningsField(r) ==
    LET label == IF Contains(r, "Warnings:") THEN "Warnings:"
                 ELSE IF Contains(r, "Warnings (if any):") THEN "Warnings (if any):"
                 ELSE ""
        rest  == IF label = "" THEN "" ELSE SplitSecond(r, label)
        eol   == Find(rest, "\n")
    IN  Strip(IF eol = 0 THEN rest ELSE Prefix(rest, eol - 1))

\* lengths of a generated draft, either side of the 1000-character cut
SummaryCut == 1000
DraftLens == {600, 1400}

NoDraft == [lesson |-> 0, rev |-> 0, len |-> 0]

\* evidence handed to the Gate by _process_lesson: never empty (line 424)
PlaceholderEvidence == "No specific evidence found."
ArticleEvidence == "--- article: Paris ---\n[britannica] No results for 'Paris'.\n"
LessonEvidence == {PlaceholderEvidence, ArticleEvidence}

\* bounds on the number of lessons in the plan
MaxLessonsRev == 2
MaxLessonsWin == 3

-----------------------------------------------------------------------------
(* _gather_evidence, lines 365-402, and its call, lines 421-424             *)

MAX_WIKI_TOPICS == 5

\* topic lists the planning step can hand to a lesson: the contiguous runs of
\* this list (the empty list among them)
TopicMaster == <<"Paris", " paris ", "Rome", "Nile", "PARIS", "Inca", "Maya", "Goth">>

TopicLists == {SubSeq(TopicMaster, i, j) : i \in 1..(Len(TopicMaster) + 1), j \in 0..Len(TopicMaster)}

\* what worker_agent("TOOL:britannica:<topic>") can return: an article block
\* or a failure string (utils/tools.py, britannica_summary)
ArticleFor(topic) == "**Encyclopaedia Britannica Article Used:** " \o topic \o "\nSummary: text"
FailureFor(topic) == "[britannica] No results for '" \o topic \o "'."
WorkerResults(topic) == {ArticleFor(topic), FailureFor(topic)}

EmptyCache == [k \in {} |-> ""]
NoCounts == [k \in {} |-> 0]

\* d[key] = value
Put(d, key, value) == [k \in (DOMAIN d) \cup {key} |-> IF k = key THEN value ELSE d[k]]

\* lines 375-381: the for loop over topics with the seen set
RECURSIVE Dedup(_, _, _)
Dedup(ts, seen, acc) ==
    IF Len(ts) = 0 THEN acc
    ELSE LET clean == Strip(Head(ts))
         IN  IF Lower(clean) \in seen
             THEN Dedup(Tail(ts), seen, acc)
             ELSE Dedup(Tail(ts), seen \cup {Lower(clean)}, Append(acc, clean))

\* the list left whole
CapNone(ts) == ts

\* line 383: unique_topics[:MAX_WIKI_TOPICS]
Cap(ts) == SubSeq(ts, 1, Min(Len(ts), MAX_WIKI_TOPICS))

\* the topic as it is written
CacheKeyAsWritten(topic) == topic

\* line 387: cache_key = topic.lower()
CacheKey(topic) == Lower(topic)

\* lines 390 and 400: the block of one topic
CachedBlock(topic, text) == "--- article: " \o topic \o " (cached) ---\n" \o text \o "\n"
FreshBlock(topic, text) == "--- article: " \o topic \o " ---\n" \o text \o "\n"

RECURSIVE Join(_, _)
\* sep.join(parts)
Join(sep, parts) ==
    IF Len(parts) = 0 THEN ""
    ELSE IF Len(parts) = 1 THEN parts[1]
    ELSE parts[1] \o sep \o Join(sep, Tail(parts))

NoLookup == [topic |-> "", key |-> "", hit |-> FALSE, text |-> ""]

\* bound on the number of lessons in the plan
MaxLessonsGather == 2

GatherIdle ==
    /\ gpc = "off"
    /\ topics = <<>>
    /\ unique_topics = <<>>
    /\ gi = 0
    /\ evidence_parts = <<>>
    /\ evidence_cache = EmptyCache
    /\ fetch_count = NoCounts
    /\ first_text = EmptyCache
    /\ processed = <<>>
    /\ last_lookup = NoLookup

\* line 685-692: a fresh shared_context; the first lesson is about to gather
GatherInit ==
    /\ num_lessons \in 1..MaxLessonsGather
    /\ lesson_no = 1
    /\ evidence = ""
    /\ gpc = "start"
    /\ topics = <<>>
    /\ unique_topics = <<>>
    /\ gi = 0
    /\ evidence_parts = <<>>
    /\ evidence_cache = EmptyCache
    /\ fetch_count = NoCounts
    /\ first_text = EmptyCache
    /\ processed = <<>>
    /\ last_lookup = NoLookup

\* lines 411-415 and 374-383: the lesson's topics, deduplicated and capped
GatherStart ==
    /\ gpc = "start"
    /\ \E ts \in TopicLists :
          /\ topics' = ts
          /\ unique_topics' = Cap(Dedup(ts, {}, <<>>))
    /\ evidence_parts' = <<>>
    /\ gi' = 1
    /\ processed' = <<>>
    /\ last_lookup' = NoLookup
    /\ gpc' = "loop"
    /\ UNCHANGED <<evidence_cache, fetch_count, first_text>>
    /\ UNCHANGED <<jobVars, notGather>>

\* lines 385-391: the topic is in the cache; no research call
GatherHit ==
    /\ gpc = "loop"
    /\ gi <= Len(unique_topics)
    /\ LET topic == unique_topics[gi]
           cache_key == CacheKey(topic)
       IN  /\ cache_key \in DOMAIN evidence_cache
           /\ evidence_parts' = Append(evidence_parts, CachedBlock(topic, evidence_cache[cache_key]))
           /\ processed' = Append(processed, topic)
           /\ last_lookup' = [topic |-> topic, key |-> Lower(Strip(topic)), hit |-> TRUE,
                              text |-> evidence_cache[cache_key]]
    /\ gi' = gi + 1
    /\ UNCHANGED <<gpc, topics, unique_topics, evidence_cache, fetch_count, first_text>>
    /\ UNCHANGED <<jobVars, notGather>>

\* lines 393-400: the topic is researched and the result stored
GatherFetch ==
    /\ gpc = "loop"
    /\ gi <= Len(unique_topics)
    /\ LET topic == unique_topics[gi]
           cache_key == CacheKey(topic)
           norm == Lower(Strip(topic))
       IN  /\ cache_key \notin DOMAIN evidence_cache
           /\ \E result \in WorkerResults(topic) :
                 /\ evidence_cache' = Put(evidence_cache, cache_key, result)
                 /\ evidence_parts' = Append(evidence_parts, FreshBlock(topic, result))
                 /\ first_text' = IF norm \in DOMAIN first_text THEN first_text
                                  ELSE Put(first_text, norm, result)
                 /\ last_lookup' = [topic |-> topic, key |-> norm, hit |-> FALSE,
                                    text |-> result]
           /\ fetch_count' = Put(fetch_count, norm,
                                 IF norm \in DOMAIN fetch_count THEN fetch_count[norm] + 1 ELSE 1)
           /\ processed' = Append(processed, topic)
    /\ gi' = gi + 1
    /\ UNCHANGED <<gpc, topics, unique_topics>>
    /\ UNCHANGED <<jobVars, notGather>>

\* lines 402 and 422-424: the joined text, or the placeholder when it is blank
GatherReturn ==
    /\ gpc = "loop"
    /\ gi > Len(unique_topics)
    /\ LET joined == Join("\n", evidence_parts)
       IN  evidence' = IF Strip(joined) = "" THEN PlaceholderEvidence ELSE joined
    /\ gpc' = "rest"
    /\ UNCHANGED <<num_lessons, lesson_no>>
    /\ UNCHANGED <<topics, unique_topics, gi, evidence_parts, evidence_cache,
                   fetch_count, first_text, processed, last_lookup>>
    /\ UNCHANGED notGather

\* lines 426-634 and the for loop of _orchestrate_history_package (696-698):
\* the rest of the lesson does not touch the cache; the lesson's locals are
\* gone and the next lesson starts
GatherRestOfLesson ==
    /\ gpc = "rest"
    /\ IF lesson_no < num_lessons
       THEN lesson_no' = lesson_no + 1 /\ gpc' = "start"
       ELSE lesson_no' = lesson_no /\ gpc' = "done"
    /\ evidence' = ""
    /\ topics' = <<>>
    /\ unique_topics' = <<>>
    /\ gi' = 0
    /\ evidence_parts' = <<>>
    /\ processed' = <<>>
    /\ last_lookup' = NoLookup
    /\ UNCHANGED <<num_lessons, evidence_cache, fetch_count, first_text>>
    /\ UNCHANGED notGather

GatherNext == GatherStart \/ GatherHit \/ GatherFetch \/ GatherReturn \/ GatherRestOfLesson

-----------------------------------------------------------------------------
(* _process_lesson, lines 456-574: draft, fact-check, revise, record       *)

LessonName(n) == "Lesson " \o Str(n) \o " - Title"

\* f"{full_lesson_name}:\n{summary[:1000]}..."
TruncatedEntry(name, d) == [name |-> name, lesson |-> d.lesson, rev |-> d.rev,
                            len |-> Min(d.len, SummaryCut)]

\* the append without the eviction
WindowKeepAll(window, entry) == Append(window, entry)

\* append, then pop(0) when more than 2 are kept
WindowPush(window, entry) ==
    LET w == Append(window, entry)
    IN  IF Len(w) > 2 THEN Tail(w) ELSE w

RevIdle ==
    /\ rpc = "off"
    /\ stub = [gate |-> {}, lens |-> {}, evidence |-> {}]
    /\ summary = NoDraft
    /\ fact_check_result = ""
    /\ revision_attempt = 0
    /\ regens = 0
    /\ gate_calls = 0
    /\ first_result = ""
    /\ lesson_summaries = <<>>
    /\ full_summaries = <<>>
    /\ fact_check_stats = <<>>
    /\ sources = <<>>
    /\ checked_summary = NoDraft

RevInit(maxLessons, gateMenus, lenMenus, evidenceMenus) ==
    /\ rpc = "draft"
    /\ stub \in [gate : gateMenus, lens : lenMenus, evidence : evidenceMenus]
    /\ num_lessons \in 1..maxLessons
    /\ lesson_no = 1
    /\ evidence \in stub.evidence
    /\ summary = NoDraft
    /\ fact_check_result = ""
    /\ revision_attempt = 0
    /\ regens = 0
    /\ gate_calls = 0
    /\ first_result = ""
    /\ lesson_summaries = <<>>
    /\ full_summaries = <<>>
    /\ fact_check_stats = <<>>
    /\ sources = <<>>
    /\ checked_summary = NoDraft

\* lines 457-462: summary = await generate(_teacher_summary_prompt(...))
Draft ==
    /\ rpc = "draft"
    /\ \E n \in stub.lens : summary' = [lesson |-> lesson_no, rev |-> 0, len |-> n]
    /\ rpc' = "fact_check"
    /\ UNCHANGED <<stub, num_lessons, lesson_no, evidence, fact_check_result,
                   revision_attempt, regens, gate_calls, first_result,
                   lesson_summaries, full_summaries, fact_check_stats, sources, checked_summary>>
    /\ UNCHANGED notRev

\* lines 466-490: the first fact_checker_agent call; revision_attempt = 0
FactCheck ==
    /\ rpc = "fact_check"
    /\ \E llm \in stub.gate :
          /\ fact_check_result' = fact_checker_agent(evidence, llm)
          /\ first_result' = fact_checker_agent(evidence, llm)
    /\ checked_summary' = summary
    /\ gate_calls' = gate_calls + 1
    /\ revision_attempt' = 0
    /\ rpc' = "loop"
    /\ UNCHANGED <<stub, num_lessons, lesson_no, evidence, summary, regens,
                   lesson_summaries, full_summaries, fact_check_stats, sources>>
    /\ UNCHANGED notRev

\* the loop test follows the regeneration, without a re-check
AfterRegenerateUnchecked == "loop"

\* lines 531-537: the regeneration is followed by the re-check of the new draft
AfterRegenerate == "recheck"

\* lines 492-532: the loop test passes, revision_attempt += 1, the draft is regenerated
Regenerate ==
    /\ rpc = "loop"
    /\ LoopContinues(fact_check_result, revision_attempt)
    /\ revision_attempt' = revision_attempt + 1
    /\ regens' = regens + 1
    /\ \E n \in stub.lens :
          summary' = [lesson |-> lesson_no, rev |-> revision_attempt + 1, len |-> n]
    /\ rpc' = AfterRegenerate
    /\ UNCHANGED <<stub, num_lessons, lesson_no, evidence, fact_check_result,
                   gate_calls, first_result, lesson_summaries, full_summaries,
                   fact_check_stats, sources, checked_summary>>
    /\ UNCHANGED notRev

\* lines 534-537: fact_check_result = await fact_checker_agent(summary, evidence)
Recheck ==
    /\ rpc = "recheck"
    /\ \E llm \in stub.gate : fact_check_result' = fact_checker_agent(evidence, llm)
    /\ checked_summary' = summary
    /\ gate_calls' = gate_calls + 1
    /\ rpc' = "loop"
    /\ UNCHANGED <<stub, num_lessons, lesson_no, evidence, summary, revision_attempt,
                   regens, first_result, lesson_summaries, full_summaries,
                   fact_check_stats, sources>>
    /\ UNCHANGED notRev

RECURSIVE ArticleSections(_)
\* line 428: re.split on the block headers of the evidence: the topic of each
\* block and the text up to the next header
ArticleSections(ev) ==
    LET opening == "--- article: "
        p == Find(ev, opening)
    IN  IF p = 0 THEN <<>>
        ELSE LET rest == Suffix(ev, p + Len(opening) - 1)
                 q == Find(rest, " ---")
             IN  IF q = 0 THEN <<>>
                 ELSE LET after == Suffix(rest, q + 3)
                          nxt == Find(after, opening)
                      IN  <<[topic |-> Strip(Prefix(rest, q - 1)),
                             content |-> IF nxt = 0 THEN after ELSE Prefix(after, nxt - 1)]>>
                          \o (IF nxt = 0 THEN <<>> ELSE ArticleSections(Suffix(after, nxt - 1)))

\* lines 437-441: the title after the "Article Used:" marker, else the topic
SourceTitle(section) ==
    LET marker == "Article Used:** "
        p == Find(section.content, marker)
        rest == Suffix(section.content, p + Len(marker) - 1)
        eol == Find(rest, "\n")
    IN  IF p = 0 THEN section.topic
        ELSE Strip(IF eol = 0 THEN rest ELSE Prefix(rest, eol - 1))

RECURSIVE DropSeen(_, _)
\* lines 444-453: one candidate per title (the url is left out of the key)
DropSeen(cands, seen) ==
    IF Len(cands) = 0 THEN <<>>
    ELSE IF Head(cands).title \in seen THEN DropSeen(Tail(cands), seen)
    ELSE <<Head(cands)>> \o DropSeen(Tail(cands), seen \cup {Head(cands).title})

\* lines 427-453: temp_sources
TempSources(name, ev) ==
    LET sections == ArticleSections(ev)
    IN  DropSeen([i \in 1..Len(sections) |->
                    [lesson |-> name, topic |-> sections[i].topic,
                     title |-> SourceTitle(sections[i])]], {})

\* lines 472-486: a source is left out when the first response has a
\* "Warnings:" part that names a word of its title longer than 4 letters
IsIrrelevant(source, first) ==
    /\ Contains(first, "Warnings:")
    /\ LET warnings_section == Lower(SplitSecond(first, "Warnings:"))
           source_identifier == Strip(source.title)
           words == StripAndDrop(SplitAll(source_identifier, " "))
       IN  /\ \/ Contains(warnings_section, Lower(source_identifier))
               \/ Contains(warnings_section, "unrelated")
               \/ Contains(warnings_section, "not relevant")
           /\ \E i \in 1..Len(words) :
                  Len(words[i]) > 4 /\ Contains(warnings_section, Lower(words[i]))

RECURSIVE Relevant(_, _)
\* lines 564-566: the candidates that are not left out, in order
Relevant(cands, first) ==
    IF Len(cands) = 0 THEN <<>>
    ELSE (IF IsIrrelevant(Head(cands), first) THEN <<>> ELSE <<Head(cands)>>)
         \o Relevant(Tail(cands), first)

\* the list is replaced by the new items
ReplaceAll(list, items) == items

\* lines 564-566 and 603-605: one append per item
AppendAll(list, items) == list \o items

\* the record keeps the Gate's first response
DetailsFirst(first, last) == first

\* lines 545, 552, 559: "details": fact_check_result, the variable the loop
\* overwrites with every response
Details(first, last) == last

\* lines 492-498 (the loop ends) and 539-574: the verdict record, the window, the full text
RecordVerdict ==
    /\ rpc = "loop"
    /\ ~LoopContinues(fact_check_result, revision_attempt)
    /\ fact_check_stats' = Append(fact_check_stats,
            [lesson |-> LessonName(lesson_no),
             verdict |-> VerdictOf(fact_check_result, revision_attempt),
             details |-> Details(first_result, fact_check_result)])
    /\ lesson_summaries' = WindowPush(lesson_summaries,
                                      TruncatedEntry(LessonName(lesson_no), summary))
    /\ full_summaries' = Append(full_summaries, summary)
    /\ sources' = AppendAll(sources,
            Relevant(TempSources(LessonName(lesson_no), evidence), first_result))
    /\ rpc' = "persist"
    /\ UNCHANGED <<stub, num_lessons, lesson_no, evidence, summary, fact_check_result,
                   revision_attempt, regens, gate_calls, first_result, checked_summary>>
    /\ UNCHANGED notRev

\* lines 576-634 and the for loop of _orchestrate_history_package (696-698):
\* the rest of the lesson writes none of these variables; the next lesson starts
\* with its own evidence and fresh locals
RestOfLesson ==
    /\ rpc = "persist"
    /\ IF lesson_no < num_lessons
       THEN /\ lesson_no' = lesson_no + 1
            /\ rpc' = "draft"
            /\ evidence' \in stub.evidence
            /\ regens' = 0
            /\ gate_calls' = 0
            /\ first_result' = ""
       ELSE /\ rpc' = "done"
            /\ UNCHANGED <<lesson_no, evidence, regens, gate_calls, first_result>>
    /\ UNCHANGED <<stub, num_lessons, summary, fact_check_result, revision_attempt,
                   lesson_summaries, full_summaries, fact_check_stats, sources, checked_summary>>
    /\ UNCHANGED notRev

RevNext == Draft \/ FactCheck \/ Regenerate \/ Recheck \/ RecordVerdict \/ RestOfLesson

-----------------------------------------------------------------------------
(* Documents, deck hand-off and poll: lines 57-72, 576-634, 700-755        *)

\* Python's None
None == "None"

Alnum == {CharAt(UpperLetters, i) : i \in 1..26} \cup {CharAt(LowerLetters, i) : i \in 1..26}
             \cup {CharAt(Digits, i) : i \in 1..10}

\* the characters .encode("ascii", errors="ignore") keeps, as far as titles use them
AsciiChars == Alnum \cup {" ", "-", "!", "?", ":", ",", ".", "'", "_"}

RECURSIVE AsciiOnly(_)
AsciiOnly(s) ==
    IF Len(s) = 0 THEN s
    ELSE (IF CharAt(s, 1) \in AsciiChars THEN CharAt(s, 1) ELSE "") \o AsciiOnly(Suffix(s, 1))

RECURSIVE CollapseRuns(_, _)
\* re.sub(r"[^A-Za-z0-9]+", "-", s); inRun: the previous character was replaced
CollapseRuns(s, inRun) ==
    IF Len(s) = 0 THEN s
    ELSE IF CharAt(s, 1) \in Alnum THEN CharAt(s, 1) \o CollapseRuns(Suffix(s, 1), FALSE)
    ELSE IF inRun THEN CollapseRuns(Suffix(s, 1), TRUE)
    ELSE "-" \o CollapseRuns(Suffix(s, 1), TRUE)

RECURSIVE StripHyphens(_)
\* s.strip("-")
StripHyphens(s) ==
    IF Len(s) > 0 /\ CharAt(s, 1) = "-" THEN StripHyphens(Suffix(s, 1))
    ELSE IF Len(s) > 0 /\ CharAt(s, Len(s)) = "-" THEN StripHyphens(Prefix(s, Len(s) - 1))
    ELSE s

SlugCut == 60

\* _slugify_title
Slugify(title) ==
    LET safe == AsciiOnly(IF title = "" THEN "presentation" ELSE title)
        hyph == StripHyphens(CollapseRuns(safe, FALSE))
    IN  Lower(Prefix(IF hyph = "" THEN "presentation" ELSE hyph, SlugCut))

\* f"{base_slug}-{counter}", or base_slug for counter 0
Candidate(base, k) == IF k = 0 THEN base ELSE base \o "-" \o Str(k)

\* the base name, or the base name with -1 when the base name is taken
BuildPptFilenameOnce(title, existing) ==
    IF (Slugify(title) \o ".pptx") \in existing
    THEN Candidate(Slugify(title), 1) \o ".pptx"
    ELSE Slugify(title) \o ".pptx"

RECURSIVE FirstFree(_, _, _)
\* lines 67-71: the while loop over the candidates
FirstFree(base, k, existing) ==
    IF (Candidate(base, k) \o ".pptx") \in existing
    THEN FirstFree(base, k + 1, existing)
    ELSE Candidate(base, k) \o ".pptx"

\* build_ppt_filename
BuildPptFilename(title, existing) == FirstFree(Slugify(title), 0, existing)

\* str(OUTPUT_DIR / filename)
OutputPath(filename) == "outputs/" \o filename

\* the for loop goes on whatever the count
PollsLeftAlways(n) == TRUE

\* line 623: for _ in range(60)
POLL_ATTEMPTS == 60
PollsLeft(n) == n < POLL_ATTEMPTS

\* full_lesson_name values the plan can produce (lesson_number and title are
\* the Generation Service's); two of them slug to the same file name
NameMenu == {"Lesson 1 - Rome", "Lesson 1 - ROME!", "Lesson 2 - Nile"}

UnitTitle == "Rome Unit"

\* what outputs/ can hold when a job starts: nothing, or files of earlier jobs
InitialFiles == {{},
                 {"lesson-1-rome.pptx"},
                 {"lesson-1-rome.pptx", "lesson-1-rome-1.pptx"},
                 {"lesson-1-rome.pptx", "lesson-1-rome.docx"}}

NoWrite == [path |-> "", replaced |-> FALSE, by |-> "nobody"]

\* bound on the number of lessons in the plan
MaxLessonsDeck == 2

DeckIdle ==
    /\ dpc = "off"
    /\ files = {}
    /\ lesson_name = ""
    /\ docx_path = None
    /\ ppt_filename = ""
    /\ ppt_ready = FALSE
    /\ polls = 0
    /\ sleeps = 0
    /\ saw_file = FALSE
    /\ ppt_queue = <<>>
    /\ next_id = 1
    /\ lesson_results = <<>>
    /\ last_write = NoWrite

DeckInit ==
    /\ num_lessons \in 1..MaxLessonsDeck
    /\ lesson_no = 1
    /\ evidence = ""
    /\ dpc = "start"
    /\ files \in InitialFiles
    /\ lesson_name = ""
    /\ docx_path = None
    /\ ppt_filename = ""
    /\ ppt_ready = FALSE
    /\ polls = 0
    /\ sleeps = 0
    /\ saw_file = FALSE
    /\ ppt_queue = <<>>
    /\ next_id = 1
    /\ lesson_results = <<>>
    /\ last_write = NoWrite

\* lines 411-418: the lesson's name; lines 421-574 write none of these variables
DeckStart ==
    /\ dpc = "start"
    /\ lesson_name' \in NameMenu
    /\ dpc' = "docx"
    /\ UNCHANGED <<files, docx_path, ppt_filename, ppt_ready, polls, sleeps, saw_file,
                   ppt_queue, next_id, lesson_results, last_write>>
    /\ UNCHANGED <<num_lessons, lesson_no, notDeck>>

\* lines 576-579 and create_docx (97-121): the document is saved under the
\* slug of the lesson name, or create_docx returns False
CreateDocx ==
    /\ dpc = "docx"
    /\ LET docx_filename == Slugify(lesson_name) \o ".docx"
       IN  \E docx_created \in BOOLEAN :
              IF docx_created
              THEN /\ files' = files \cup {docx_filename}
                   /\ last_write' = [path |-> docx_filename,
                                     replaced |-> docx_filename \in files,
                                     by |-> "create_docx"]
                   /\ docx_path' = OutputPath(docx_filename)
              ELSE /\ docx_path' = None
                   /\ UNCHANGED <<files, last_write>>
    /\ dpc' = "dispatch"
    /\ UNCHANGED <<lesson_name, ppt_filename, ppt_ready, polls, sleeps, saw_file,
                   ppt_queue, next_id, lesson_results>>
    /\ UNCHANGED <<num_lessons, lesson_no, notDeck>>

\* lines 607-622: the file name is computed and the request is queued
Dispatch ==
    /\ dpc = "dispatch"
    /\ ppt_filename' = BuildPptFilename(lesson_name, files)
    /\ ppt_queue' = Append(ppt_queue,
            [id |-> next_id, to |-> "ppt", title |-> lesson_name,
             filename |-> BuildPptFilename(lesson_name, files)])
    /\ next_id' = next_id + 1
    /\ ppt_ready' = FALSE
    /\ dpc' = "poll"
    /\ UNCHANGED <<files, lesson_name, docx_path, polls, sleeps, saw_file,
                   lesson_results, last_write>>
    /\ UNCHANGED <<num_lessons, lesson_no, notDeck>>

\* lines 623-627: one round of the for loop: the file is there, or sleep(0.5)
PollCheck ==
    /\ dpc = "poll"
    /\ PollsLeft(polls)
    /\ polls' = polls + 1
    /\ IF ppt_filename \in files
       THEN /\ ppt_ready' = TRUE
            /\ saw_file' = TRUE
            /\ dpc' = "return"
            /\ UNCHANGED sleeps
       ELSE /\ sleeps' = sleeps + 1
            /\ UNCHANGED <<ppt_ready, saw_file, dpc>>
    /\ UNCHANGED <<files, lesson_name, docx_path, ppt_filename, ppt_queue, next_id,
                   lesson_results, last_write>>
    /\ UNCHANGED <<num_lessons, lesson_no, notDeck>>

\* line 623: range(60) is used up
PollTimeout ==
    /\ dpc = "poll"
    /\ ~PollsLeft(polls)
    /\ dpc' = "return"
    /\ UNCHANGED <<files, lesson_name, docx_path, ppt_filename, ppt_ready, polls,
                   sleeps, saw_file, ppt_queue, next_id, lesson_results, last_write>>
    /\ UNCHANGED <<num_lessons, lesson_no, notDeck>>

\* line 698, written the other way round: the newest artifact in front
CollectInFront(results, lesson_data) == <<lesson_data>> \o results

\* line 698: lesson_results.append(lesson_data)
Collect(results, lesson_data) == Append(results, lesson_data)

\* lines 629-634 and 696-698: the artifact is returned and collected; the
\* lesson's locals are gone. The field lesson is a ghost: the place of the
\* lesson in the plan.
LessonReturn ==
    /\ dpc = "return"
    /\ lesson_results' = Collect(lesson_results,
            [lesson_name |-> lesson_name,
             ppt_path |-> IF ppt_ready THEN OutputPath(ppt_filename) ELSE None,
             docx_path |-> docx_path,
             saw_file |-> saw_file,
             lesson |-> lesson_no])
    /\ IF lesson_no < num_lessons
       THEN lesson_no' = lesson_no + 1 /\ dpc' = "start"
       ELSE lesson_no' = lesson_no /\ dpc' = "quiz"
    /\ lesson_name' = ""
    /\ docx_path' = None
    /\ ppt_filename' = ""
    /\ ppt_ready' = FALSE
    /\ polls' = 0
    /\ sleeps' = 0
    /\ saw_file' = FALSE
    /\ UNCHANGED <<files, ppt_queue, next_id, last_write>>
    /\ UNCHANGED <<num_lessons, notDeck>>

\* lines 700-723: the quiz document is saved under quiz_<slug>.docx, or not
SaveQuiz ==
    /\ dpc = "quiz"
    /\ LET quiz_filename == "quiz_" \o Slugify(UnitTitle) \o ".docx"
       IN  \E saved \in BOOLEAN :
              IF saved
              THEN /\ files' = files \cup {quiz_filename}
                   /\ last_write' = [path |-> quiz_filename,
                                     replaced |-> quiz_filename \in files,
                                     by |-> "quiz"]
              ELSE UNCHANGED <<files, last_write>>
    /\ dpc' = "sources"
    /\ UNCHANGED <<lesson_name, docx_path, ppt_filename, ppt_ready, polls, sleeps,
                   saw_file, ppt_queue, next_id, lesson_results>>
    /\ UNCHANGED <<num_lessons, lesson_no, notDeck>>

\* lines 749-755 and create_sources_document (124-168)
SaveSources ==
    /\ dpc = "sources"
    /\ LET sources_filename == "sources_" \o Slugify(UnitTitle) \o ".docx"
       IN  \E saved \in BOOLEAN :
              IF saved
              THEN /\ files' = files \cup {sources_filename}
                   /\ last_write' = [path |-> sources_filename,
                                     replaced |-> sources_filename \in files,
                                     by |-> "create_sources_document"]
              ELSE UNCHANGED <<files, last_write>>
    /\ dpc' = "done"
    /\ UNCHANGED <<lesson_name, docx_path, ppt_filename, ppt_ready, polls, sleeps,
                   saw_file, ppt_queue, next_id, lesson_results>>
    /\ UNCHANGED <<num_lessons, lesson_no, notDeck>>

\* the deck-builder (agents/ppt_agent.py): takes the oldest request and writes
\* outputs/<filename>
PptAgentWrite ==
    /\ Len(ppt_queue) > 0
    /\ files' = files \cup {Head(ppt_queue).filename}
    /\ last_write' = [path |-> Head(ppt_queue).filename,
                      replaced |-> Head(ppt_queue).filename \in files,
                      by |-> "ppt_agent"]
    /\ ppt_queue' = Tail(ppt_queue)
    /\ UNCHANGED <<dpc, lesson_name, docx_path, ppt_filename, ppt_ready, polls, sleeps,
                   saw_file, next_id, lesson_results>>
    /\ UNCHANGED <<num_lessons, lesson_no, notDeck>>

\* the deck-builder takes the oldest request and fails to write the file
PptAgentFail ==
    /\ Len(ppt_queue) > 0
    /\ ppt_queue' = Tail(ppt_queue)
    /\ UNCHANGED <<dpc, files, lesson_name, docx_path, ppt_filename, ppt_ready, polls,
                   sleeps, saw_file, next_id, lesson_results, last_write>>
    /\ UNCHANGED <<num_lessons, lesson_no, notDeck>>

DeckNext ==
    \/ DeckStart \/ CreateDocx \/ Dispatch \/ PollCheck \/ PollTimeout
    \/ LessonReturn \/ SaveQuiz \/ SaveSources \/ PptAgentWrite \/ PptAgentFail

-----------------------------------------------------------------------------
(* planner_agent and the job it runs (planner_agent.py, lines 641-810),    *)
(* with route_task (bot/main.py, lines 73-91) feeding it                   *)

\* requests typed by the users
TaskMenu == {"3 lessons on Rome", "the Nile"}

\* str(e) of the exceptions a job can raise: .get on a JSON list, a failing
\* dependency
ExceptionTexts == {"'list' object has no attribute 'get'", "quiz_agent failed"}

NoOutput == "None"

\* line 676: the early return
PlanFailure == "Failed to generate a valid lesson plan."

\* line 807, without the leading emoji
ErrorOutput(e) == "Error during planning execution: " \o e

\* line 793: the report, of which only the first line and the number of
\* artifact entries are kept
Report(request, n) == "Request: " \o request \o "\nfiles: " \o Str(n)

\* an exception leaves the loop: nothing is put and no task is taken again
OnRaiseUncaught(e) == [ppc |-> "dead", output |-> NoOutput]

\* lines 804-807: except Exception as e: output = the error string, and
\* control falls through to result_queue.put
OnRaise(e) == [ppc |-> "put", output |-> ErrorOutput(e)]

\* the positions at which _orchestrate_history_package can raise
RaisingSteps == {"intent", "plan", "lesson", "quiz"}

\* what a job has done before its first lesson
NoCalls == [lessons |-> 0, research |-> 0, gate |-> 0, decks |-> 0]

\* the plan is never taken for empty
NoLessonsNever(n) == FALSE

\* line 675: not lessons
NoLessons(n) == n = 0

\* the newest task is taken first
QueueGetNewest(queue) ==
    [item |-> queue[Len(queue)], rest |-> SubSeq(queue, 1, Len(queue) - 1)]

\* asyncio.Queue.get (queues/message_bus.py, task_queue): the oldest item
QueueGet(queue) == [item |-> Head(queue), rest |-> Tail(queue)]

\* the orchestrator is not running: its local num_lessons does not exist
NoCount == -1

\* what intent.get("num_lessons", 1) can be: the default, a number, a text
IntentAbsent == [kind |-> "absent"]
IntentInt(n) == [kind |-> "int", value |-> n]
IntentText(text) == [kind |-> "str", text |-> text]
IntentMenu == {IntentAbsent, IntentInt(0), IntentInt(5), IntentText("many"), IntentText("5")}

RECURSIVE DigitsPrefix(_)
\* the run of digits a text starts with
DigitsPrefix(s) ==
    IF Len(s) > 0 /\ Contains(Digits, CharAt(s, 1))
    THEN CharAt(s, 1) \o DigitsPrefix(Suffix(s, 1))
    ELSE ""

RECURSIVE DigitsValue(_)
\* int() of a run of digits
DigitsValue(s) ==
    IF Len(s) = 0 THEN 0
    ELSE 10 * DigitsValue(Prefix(s, Len(s) - 1)) + (Find(Digits, CharAt(s, Len(s))) - 1)

\* lines 653-656: int(intent.get("num_lessons", 1)), 1 when int() raises;
\* the value is not clamped
IntentCount(value) ==
    IF value.kind = "absent" THEN 1
    ELSE IF value.kind = "int" THEN value.value
    ELSE LET text == Strip(value.text)
         IN  IF text # "" /\ DigitsPrefix(text) = text THEN DigitsValue(text) ELSE 1

\* the for loop runs as many rounds as the request asked for
LoopLengthAsked(plan_lessons, asked) == asked

\* lines 696-698: for lesson in lessons, the list of the Unit Plan
LoopLength(plan_lessons, asked) == plan_lessons

\* bounds: tasks routed in one run, lessons of a plan
MaxTasks == 2
MaxLessonsPlan == 2

PlannerIdle ==
    /\ ppc = "off"
    /\ task_queue = <<>>
    /\ result_queue = <<>>
    /\ task_str = ""
    /\ output = NoOutput
    /\ raised = FALSE
    /\ taken = 0
    /\ task_log = <<>>
    /\ served = <<>>
    /\ job_calls = NoCalls
    /\ intent_lessons = NoCount

\* bot/main.py line 58: the planner task is created; the queues are empty
PlannerInit ==
    /\ num_lessons = 0
    /\ lesson_no = 0
    /\ evidence = ""
    /\ ppc = "get"
    /\ task_queue = <<>>
    /\ result_queue = <<>>
    /\ task_str = ""
    /\ output = NoOutput
    /\ raised = FALSE
    /\ taken = 0
    /\ task_log = <<>>
    /\ served = <<>>
    /\ job_calls = NoCalls
    /\ intent_lessons = NoCount

\* bot/main.py line 79: await task_queue.put(task)
RouteTask ==
    /\ Len(task_log) < MaxTasks
    /\ \E task \in TaskMenu :
          /\ task_queue' = Append(task_queue, task)
          /\ task_log' = Append(task_log, task)
    /\ UNCHANGED <<ppc, result_queue, task_str, output, raised, taken, served, job_calls, intent_lessons>>
    /\ UNCHANGED <<num_lessons, lesson_no, notPlan>>

\* bot/main.py lines 81-88: msg = await result_queue.get()
RouterGet ==
    /\ Len(result_queue) > 0
    /\ result_queue' = Tail(result_queue)
    /\ UNCHANGED <<ppc, task_queue, task_str, output, raised, taken, task_log, served, job_calls, intent_lessons>>
    /\ UNCHANGED <<num_lessons, lesson_no, notPlan>>

\* line 800: task_str = await task_queue.get()
PlannerGet ==
    /\ ppc = "get"
    /\ Len(task_queue) > 0
    /\ task_str' = QueueGet(task_queue).item
    /\ task_queue' = QueueGet(task_queue).rest
    /\ taken' = taken + 1
    /\ raised' = FALSE
    /\ output' = NoOutput
    /\ num_lessons' = 0
    /\ lesson_no' = 0
    /\ job_calls' = NoCalls
    /\ intent_lessons' = NoCount
    /\ ppc' = "intent"
    /\ UNCHANGED <<result_queue, task_log, served, notPlan>>

\* lines 643-665: the intent is generated and parsed
OrchIntent ==
    /\ ppc = "intent"
    /\ \E value \in IntentMenu : intent_lessons' = IntentCount(value)
    /\ ppc' = "plan"
    /\ UNCHANGED <<task_queue, result_queue, task_str, output, raised, taken,
                   task_log, served, job_calls>>
    /\ UNCHANGED <<num_lessons, lesson_no, notPlan>>

\* lines 668-676: the plan is generated and parsed; without lessons the job
\* returns the failure text
OrchPlan ==
    /\ ppc = "plan"
    /\ \E n \in 0..MaxLessonsPlan :
          /\ num_lessons' = n
          /\ IF NoLessons(n)
             THEN /\ output' = PlanFailure
                  /\ ppc' = "put"
                  /\ lesson_no' = 0
                  /\ intent_lessons' = NoCount
             ELSE /\ output' = output
                  /\ ppc' = IF n > 0 THEN "lesson" ELSE "quiz"
                  /\ lesson_no' = 1
                  /\ intent_lessons' = intent_lessons
    /\ UNCHANGED <<task_queue, result_queue, task_str, raised, taken, task_log, served, job_calls>>
    /\ UNCHANGED notPlan

\* lines 695-698: one round of the for loop over the lessons: _process_lesson
\* calls _gather_evidence once, calls the Gate a first time (and once more
\* after each regeneration, not counted here), and puts one request on
\* ppt_queue
OrchLesson ==
    /\ ppc = "lesson"
    /\ lesson_no' = lesson_no + 1
    /\ ppc' = IF lesson_no = LoopLength(num_lessons, intent_lessons) THEN "quiz" ELSE "lesson"
    /\ job_calls' = [lessons |-> job_calls.lessons + 1,
                     research |-> job_calls.research + 1,
                     gate |-> job_calls.gate + 1,
                     decks |-> job_calls.decks + 1]
    /\ UNCHANGED <<task_queue, result_queue, task_str, output, raised, taken,
                   task_log, served, intent_lessons>>
    /\ UNCHANGED <<num_lessons, notPlan>>

\* lines 700-723: the quiz is generated; a failing save is caught there
OrchQuiz ==
    /\ ppc = "quiz"
    /\ ppc' = "report"
    /\ UNCHANGED <<task_queue, result_queue, task_str, output, raised, taken,
                   task_log, served, job_calls, intent_lessons>>
    /\ UNCHANGED <<num_lessons, lesson_no, notPlan>>

\* lines 725-793: the report is put together and returned
OrchReport ==
    /\ ppc = "report"
    /\ output' = Report(task_str, job_calls.lessons)
    /\ intent_lessons' = NoCount
    /\ ppc' = "put"
    /\ UNCHANGED <<task_queue, result_queue, task_str, raised, taken, task_log, served, job_calls>>
    /\ UNCHANGED <<num_lessons, lesson_no, notPlan>>

\* lines 803-807: a step of the job raises
OrchRaise ==
    /\ ppc \in RaisingSteps
    /\ \E e \in ExceptionTexts :
          /\ ppc' = OnRaise(e).ppc
          /\ output' = OnRaise(e).output
    /\ raised' = TRUE
    /\ intent_lessons' = NoCount
    /\ UNCHANGED <<task_queue, result_queue, task_str, taken, task_log, served, job_calls>>
    /\ UNCHANGED <<num_lessons, lesson_no, notPlan>>

\* line 809: await result_queue.put(output)
PlannerPut ==
    /\ ppc = "put"
    /\ result_queue' = Append(result_queue, output)
    /\ served' = Append(served, [task |-> task_str, output |-> output, raised |-> raised,
                                 plan |-> num_lessons, calls |-> job_calls])
    /\ ppc' = "task_done"
    /\ UNCHANGED <<task_queue, task_str, output, raised, taken, task_log, job_calls, intent_lessons>>
    /\ UNCHANGED <<num_lessons, lesson_no, notPlan>>

\* line 810: task_queue.task_done(), and round the while True loop
PlannerTaskDone ==
    /\ ppc = "task_done"
    /\ ppc' = "get"
    /\ UNCHANGED <<task_queue, result_queue, task_str, output, raised, taken,
                   task_log, served, job_calls, intent_lessons>>
    /\ UNCHANGED <<num_lessons, lesson_no, notPlan>>

PlannerNext ==
    \/ RouteTask \/ RouterGet \/ PlannerGet \/ OrchIntent \/ OrchPlan \/ OrchLesson
    \/ OrchQuiz \/ OrchReport \/ OrchRaise \/ PlannerPut \/ PlannerTaskDone

-----------------------------------------------------------------------------
(* One call of fact_checker_agent after another (fact_checker_agent.py)    *)

\* 19 characters
ShortText == "Rome fell in 476 AD"

\* evidence arguments: empty, blank, short, short between blanks, exactly 20
\* characters, and what _process_lesson passes
EvidenceMenu == {"", "   ", "\n", ShortText, "  " \o ShortText \o "\n\n",
                 ShortText \o ".", PlaceholderEvidence, ArticleEvidence}

\* bound on the number of calls in one run
MaxGateRuns == 4

GateIdle ==
    /\ fpc = "off"
    /\ fc_evidence = ""
    /\ fc_return = ""
    /\ generate_calls = 0
    /\ fc_runs = 0

GateInit ==
    /\ num_lessons = 0
    /\ lesson_no = 0
    /\ evidence = ""
    /\ fpc = "idle"
    /\ fc_evidence = ""
    /\ fc_return = ""
    /\ generate_calls = 0
    /\ fc_runs = 0

\* line 32: fact_checker_agent(text_to_check, evidence) is called
FcCall ==
    /\ fpc = "idle"
    /\ fc_runs < MaxGateRuns
    /\ fc_evidence' \in EvidenceMenu
    /\ fc_return' = ""
    /\ generate_calls' = 0
    /\ fc_runs' = fc_runs + 1
    /\ fpc' = "test"
    /\ UNCHANGED notGate

\* lines 43-48: the early return
FcShortCircuit ==
    /\ fpc = "test"
    /\ NoEvidence(fc_evidence)
    /\ fc_return' = NoEvidenceVerdict
    /\ fpc' = "idle"
    /\ UNCHANGED <<fc_evidence, generate_calls, fc_runs, notGate>>

\* lines 50-78: the prompt is built, generate is called once and its text is
\* returned under the result heading
FcGenerate ==
    /\ fpc = "test"
    /\ ~NoEvidence(fc_evidence)
    /\ generate_calls' = generate_calls + 1
    /\ \E llm \in GateTexts : fc_return' = "Fact-Checker Result:\n" \o llm
    /\ fpc' = "idle"
    /\ UNCHANGED <<fc_evidence, fc_runs, notGate>>

GateNext == FcCall \/ FcShortCircuit \/ FcGenerate

-----------------------------------------------------------------------------
(* The lessons of one job and the report: _orchestrate_history_package,    *)
(* lines 678-793.  Symbols outside ASCII are left out of the texts.        *)

\* the request of the job
ReportRequest == "3 lessons on Rome"

RECURSIVE Replace(_, _, _)
\* s.replace(old, new) for a non-empty old
Replace(s, old, new) ==
    LET i == Find(s, old)
    IN  IF i = 0 THEN s
        ELSE Prefix(s, i - 1) \o new \o Replace(Suffix(s, i - 1 + Len(old)), old, new)

RECURSIVE PlanRows(_, _)
\* lines 680-683: one row per lesson of the plan
PlanRows(k, n) ==
    IF k > n THEN "" ELSE "  " \o Str(k) \o ". Title\n" \o PlanRows(k + 1, n)

\* lines 679-683: plan_summary
PlanSummary(n) == "**Unit:** " \o UnitTitle \o "\n**Lessons:**\n" \o PlanRows(1, n)

\* lines 736-742: the lines of one lesson entry
ArtifactLines(result) ==
    <<"- " \o result.lesson_name>>
    \o (IF result.ppt_path # None THEN <<"  __FILE__:" \o result.ppt_path>> ELSE <<>>)
    \o (IF result.docx_path # None THEN <<"  __FILE__:" \o result.docx_path>> ELSE <<>>)

RECURSIVE LessonLinesNewestFirst(_)
\* the entries are listed from the last lesson back to the first
LessonLinesNewestFirst(results) ==
    IF Len(results) = 0 THEN <<>>
    ELSE ArtifactLines(results[Len(results)])
            \o LessonLinesNewestFirst(SubSeq(results, 1, Len(results) - 1))

RECURSIVE LessonLines(_)
\* lines 735-742: for result in lesson_results
LessonLines(results) ==
    IF Len(results) = 0 THEN <<>>
    ELSE ArtifactLines(Head(results)) \o LessonLines(Tail(results))

\* lines 762-764: the three tests on a verdict
IsFirstGo(verdict) == verdict = "GO"
\* the revised tally without its test for the word "revised"
IsRevisedGoAnyGo(verdict) == Contains(verdict, "GO")
IsRevisedGo(verdict) == Contains(Lower(verdict), "revised") /\ Contains(verdict, "GO")
IsWarning(verdict) == Contains(verdict, "WARNING")

\* sum(1 for s in fact_check_stats if test(s["verdict"]))
CountVerdicts(stats, Test(_)) ==
    Cardinality({i \in 1..Len(stats) : Test(stats[i].verdict)})

\* lines 786-787: re.search(r'revised (\d+)x', verdict), "1" without a match
RevCount(verdict) ==
    LET rest == IF Contains(verdict, "revised ") THEN SplitSecond(verdict, "revised ") ELSE ""
        num  == DigitsPrefix(rest)
    IN  IF num # "" /\ CharAt(rest, Len(num) + 1) = "x" THEN num ELSE "1"

\* lines 778-790: the line of one lesson under "Details by lesson"
DetailLine(stat) ==
    LET name == Replace(stat.lesson, "Lesson ", "L")
    IN  IF IsFirstGo(stat.verdict) THEN "  " \o name \o ": Approved"
        ELSE IF IsRevisedGo(stat.verdict)
             THEN "  " \o name \o ": Revised " \o RevCount(stat.verdict) \o "x and approved"
        ELSE "  " \o name \o ": " \o stat.verdict

\* lines 757-791: the fact-check summary, when there are records
FactCheckLines(stats) ==
    IF Len(stats) = 0 THEN <<>>
    ELSE LET go_first_attempt == CountVerdicts(stats, IsFirstGo)
             go_revised == CountVerdicts(stats, IsRevisedGo)
             warnings == CountVerdicts(stats, IsWarning)
         IN  <<"", "**Fact Checking Summary:**">>
             \o (IF go_first_attempt > 0
                 THEN <<Str(go_first_attempt) \o " lesson(s) verified on first attempt">>
                 ELSE <<>>)
             \o (IF go_revised > 0
                 THEN <<Str(go_revised) \o " lesson(s) revised and approved">>
                 ELSE <<>>)
             \o (IF warnings > 0
                 THEN <<Str(warnings) \o " lesson(s) have warnings">>
                 ELSE <<>>)
             \o <<"", "**Details by lesson:**">>
             \o [i \in 1..Len(stats) |-> DetailLine(stats[i])]

\* lines 725-793: output_lines; the report is "\n".join(output_lines)
ReportLines(request, n, results, quiz, sources_path, stats) ==
    <<"**Request:** " \o request, "", "**Plan made by planner agent:**",
      PlanSummary(n), "", "**Here are your files:**">>
    \o LessonLines(results)
    \o (IF quiz # None THEN <<"- Quiz", "  __FILE__:" \o quiz>> ELSE <<>>)
    \o (IF sources_path # None
        THEN <<"- Research Sources Document", "  __FILE__:" \o sources_path>>
        ELSE <<>>)
    \o FactCheckLines(stats)

\* bound on the number of lessons in the plan
MaxLessonsReport == 3

ReportIdle ==
    /\ quiz_path = None
    /\ output_lines = <<>>

\* lines 685-695: a fresh shared_context and lesson_results = []; the Gate
\* answers GO to everything, or (in plans one lesson shorter) GO or NO-GO
ReportInit ==
    /\ \/ RevInit(MaxLessonsReport, {{GateGo}}, {{1400}}, {{ArticleEvidence}})
       \/ RevInit(MaxLessonsReport - 1, {{GateGo, GateNoGo}}, {{1400}}, {{ArticleEvidence}})
    /\ quiz_path = None
    /\ output_lines = <<>>

\* lines 576-634 and 696-698: the document is saved or not, the deck is ready
\* within the poll or not, the artifact is collected and the next lesson starts
ReportLessonReturn ==
    /\ rpc = "persist"
    /\ \E docx_created \in BOOLEAN, ready \in BOOLEAN :
          lesson_results' = Append(lesson_results,
             [lesson_name |-> LessonName(lesson_no),
              ppt_path |-> IF ready
                           THEN OutputPath(BuildPptFilename(LessonName(lesson_no), files))
                           ELSE None,
              docx_path |-> IF docx_created
                            THEN OutputPath(Slugify(LessonName(lesson_no)) \o ".docx")
                            ELSE None,
              saw_file |-> ready])
    /\ IF lesson_no < num_lessons
       THEN /\ lesson_no' = lesson_no + 1
            /\ rpc' = "draft"
            /\ evidence' \in stub.evidence
            /\ regens' = 0
            /\ gate_calls' = 0
            /\ first_result' = ""
       ELSE /\ rpc' = "quiz"
            /\ UNCHANGED <<lesson_no, evidence, regens, gate_calls, first_result>>
    /\ UNCHANGED <<stub, num_lessons, summary, fact_check_result, revision_attempt,
                   lesson_summaries, full_summaries, fact_check_stats, sources, checked_summary>>
    /\ UNCHANGED <<quiz_path, output_lines, ppt_queue, next_id, notReport>>

\* lines 700-723: the quiz is generated and its document saved, or the save fails
ReportQuiz ==
    /\ rpc = "quiz"
    /\ \E saved \in BOOLEAN :
          quiz_path' = IF saved
                       THEN OutputPath("quiz_" \o Slugify(UnitTitle) \o ".docx")
                       ELSE None
    /\ rpc' = "report"
    /\ UNCHANGED <<output_lines, lesson_results, ppt_queue, next_id, jobVars, notReport>>
    /\ UNCHANGED <<stub, summary, fact_check_result, revision_attempt, regens,
                   gate_calls, first_result, lesson_summaries, full_summaries,
                   fact_check_stats, sources, checked_summary>>

\* lines 725-793: the report is put together; the sources document is listed
\* when there are sources and create_sources_document returns True
ReportFormat ==
    /\ rpc = "report"
    /\ \E listed \in BOOLEAN :
          output_lines' = ReportLines(ReportRequest, num_lessons, lesson_results, quiz_path,
                IF listed THEN OutputPath("sources_" \o Slugify(UnitTitle) \o ".docx")
                ELSE None,
                fact_check_stats)
    /\ rpc' = "returned"
    /\ UNCHANGED <<quiz_path, lesson_results, ppt_queue, next_id, jobVars, notReport>>
    /\ UNCHANGED <<stub, summary, fact_check_result, revision_attempt, regens,
                   gate_calls, first_result, lesson_summaries, full_summaries,
                   fact_check_stats, sources, checked_summary>>

\* like Draft, FactCheck, Regenerate, Recheck and RecordVerdict of the
\* revision part, followed by the return of the lesson, the quiz and the report
ReportNext ==
    \/ Draft \/ FactCheck \/ Regenerate \/ Recheck \/ RecordVerdict
    \/ ReportLessonReturn \/ ReportQuiz \/ ReportFormat

-----------------------------------------------------------------------------
(* Slide generation and hand-off: _safe_json_loads (lines 75-92) and       *)
(* _process_lesson, lines 581-634                                          *)

\* values json.loads returns
JObject(f) == [kind |-> "dict", fields |-> f]
JArray(items) == [kind |-> "list", items |-> items]
JString(text) == [kind |-> "str", text |-> text]
JNull == [kind |-> "null"]
JSONDecodeError == [kind |-> "JSONDecodeError"]

\* the slide of a well-formed answer
RomeSlide == [title |-> "Rome", bullets |-> <<"Founded in 753 BC">>]

\* JSON documents the Generation Service can answer with
GoodDoc == "{\"slides\": [{\"title\": \"Rome\", \"bullets\": [\"Founded in 753 BC\"]}]}"
EmptySlidesDoc == "{\"slides\": []}"
NullSlidesDoc == "{\"slides\": null}"
TextSlidesDoc == "{\"slides\": \"TBD\"}"
NoSlidesDoc == "{\"title\": \"Rome\"}"
ListDoc == "[{\"title\": \"Rome\", \"bullets\": [\"Founded in 753 BC\"]}]"
EmptyListDoc == "[]"
NullDoc == "null"

\* json.loads on these documents; every other text is not JSON
JsonDocs ==
    (GoodDoc :> JObject([k \in {"slides"} |-> JArray(<<RomeSlide>>)]))
    @@ (EmptySlidesDoc :> JObject([k \in {"slides"} |-> JArray(<<>>)]))
    @@ (NullSlidesDoc :> JObject([k \in {"slides"} |-> JNull]))
    @@ (TextSlidesDoc :> JObject([k \in {"slides"} |-> JString("TBD")]))
    @@ (NoSlidesDoc :> JObject([k \in {"title"} |-> JString("Rome")]))
    @@ (ListDoc :> JArray(<<RomeSlide>>))
    @@ (EmptyListDoc :> JArray(<<>>))
    @@ (NullDoc :> JNull)

\* json.loads
JsonLoads(text) == IF text \in DOMAIN JsonDocs THEN JsonDocs[text] ELSE JSONDecodeError

\* the fence of a code block; the backtick is written ~ in the texts here
Fence == "~~~"

\* lines 79-81: the body of the first fenced json block, without the blanks
\* around it, or raw itself when there is no such block
FencedBody(raw) ==
    LET i == Find(raw, Fence \o "json")
        rest == Suffix(raw, i - 1 + 7)
        j == Find(rest, Fence)
    IN  IF i = 0 \/ j = 0 THEN raw ELSE Strip(Prefix(rest, j - 1))

\* the place of the last "}" of a text, 0 without one
LastBrace(text) ==
    LET hits == {i \in 1..Len(text) : CharAt(text, i) = "}"}
    IN  IF hits = {} THEN 0 ELSE CHOOSE i \in hits : \A j \in hits : j <= i

\* line 86: the text from the first opening brace to the last closing brace,
\* or "" without such a text
BraceSpan(text) ==
    LET i == Find(text, "{")
        j == LastBrace(text)
    IN  IF i = 0 \/ j < i THEN "" ELSE SubSeq(text, i, j)

\* _safe_json_loads
SafeJsonLoads(raw) ==
    IF raw = "" THEN JObject(<<>>)
    ELSE LET body == FencedBody(Strip(raw))
         IN  IF JsonLoads(body) # JSONDecodeError THEN JsonLoads(body)
             ELSE IF BraceSpan(body) # "" /\ JsonLoads(BraceSpan(body)) # JSONDecodeError
                  THEN JsonLoads(BraceSpan(body))
             ELSE JObject(<<>>)

\* what the slide-generation call can return
SlideTexts ==
    {"", "Sorry, I cannot write slides for this lesson.", GateError,
     "{\"slides\": [{\"title\": \"Rome\"",
     GoodDoc, "~~~json\n" \o GoodDoc \o "\n" \o Fence, "Here you go: " \o GoodDoc \o " Enjoy!",
     EmptySlidesDoc, NullSlidesDoc, TextSlidesDoc, NoSlidesDoc,
     ListDoc, "~~~json\n" \o ListDoc \o "\n" \o Fence, EmptyListDoc, NullDoc}

\* the answers that carry an object with a non-empty "slides" list
GoodSlideTexts ==
    {GoodDoc, "~~~json\n" \o GoodDoc \o "\n" \o Fence, "Here you go: " \o GoodDoc \o " Enjoy!"}

\* dict.get(key, default) on the value _safe_json_loads returned
\* (line 594: slides_data.get("slides", []))
GetSlides(data) ==
    IF "slides" \in DOMAIN data.fields THEN data.fields["slides"] ELSE JArray(<<>>)

\* not value
Falsy(value) ==
    \/ value.kind = "null"
    \/ value.kind = "list" /\ Len(value.items) = 0
    \/ value.kind = "str" /\ value.text = ""
    \/ value.kind = "dict" /\ DOMAIN value.fields = {}

\* line 598
PlaceholderSlide == [title |-> "Error generating slides", bullets |-> <<"Check logs.">>,
                     notes |-> "Slide generation failed."]

\* the guide written for the lesson: two sections
SlideSummary == "Rome was founded in 753 BC.\n\nIt became a republic."

\* _extract_notes_from_summary (lines 272-287)
ExtractNotes(teacher_summary, slides) ==
    LET sections == StripAndDrop(SplitAll(teacher_summary, "\n\n"))
    IN  [i \in 1..Len(slides) |->
            [title |-> slides[i].title, bullets |-> slides[i].bullets,
             notes |-> IF i <= Len(sections) THEN sections[i] ELSE ""]]

\* str(e) of the exception lines 594-601 raise on a value, "" when they do not:
\* .get on a value that is no dict, item assignment on the items of a text
SlideException(data) ==
    IF data.kind = "list" THEN "'list' object has no attribute 'get'"
    ELSE IF data.kind = "null" THEN "'NoneType' object has no attribute 'get'"
    ELSE IF data.kind = "str" THEN "'str' object has no attribute 'get'"
    ELSE IF ~Falsy(GetSlides(data)) /\ GetSlides(data).kind = "str"
         THEN "'str' object does not support item assignment"
    ELSE ""

\* bound on the number of lessons in the plan
MaxLessonsSlides == 2

SlidesIdle ==
    /\ spc = "off"
    /\ slides_json_str = ""
    /\ slides_list = <<>>
    /\ slide_titles = <<>>
    /\ slide_error = ""

\* lines 685-695: a fresh shared_context; the first lesson is at line 583
SlidesInit ==
    /\ num_lessons \in 1..MaxLessonsSlides
    /\ lesson_no = 1
    /\ evidence = ""
    /\ spc = "generate"
    /\ slides_json_str = ""
    /\ slides_list = <<>>
    /\ slide_titles = <<>>
    /\ slide_error = ""

\* lines 583-592: slides_json_str = await generate(_slide_generation_prompt(...))
SlidesGenerate ==
    /\ spc = "generate"
    /\ slides_json_str' \in SlideTexts
    /\ spc' = "parse"
    /\ UNCHANGED <<slides_list, slide_titles, slide_error, ppt_queue, next_id,
                   lesson_results>>
    /\ UNCHANGED <<num_lessons, lesson_no, notSlides>>

\* lines 593-601: the text is parsed and the slide list taken from it, or the
\* placeholder; an exception leaves _process_lesson and the job
SlidesParse ==
    /\ spc = "parse"
    /\ LET slides_data == SafeJsonLoads(slides_json_str)
       IN  IF SlideException(slides_data) # ""
           THEN /\ slide_error' = SlideException(slides_data)
                /\ spc' = "aborted"
                /\ UNCHANGED slides_list
           ELSE /\ slides_list' = IF Falsy(GetSlides(slides_data))
                                  THEN <<PlaceholderSlide>>
                                  ELSE ExtractNotes(SlideSummary, GetSlides(slides_data).items)
                /\ spc' = "titles"
                /\ UNCHANGED slide_error
    /\ UNCHANGED <<slides_json_str, slide_titles, ppt_queue, next_id, lesson_results>>
    /\ UNCHANGED <<num_lessons, lesson_no, notSlides>>

\* lines 603-605: the titles are added to shared_context["slide_titles"]
SlidesTrack ==
    /\ spc = "titles"
    /\ slide_titles' = AppendAll(slide_titles,
                                  [i \in 1..Len(slides_list) |-> slides_list[i].title])
    /\ spc' = "dispatch"
    /\ UNCHANGED <<slides_json_str, slides_list, slide_error, ppt_queue, next_id,
                   lesson_results>>
    /\ UNCHANGED <<num_lessons, lesson_no, notSlides>>

\* lines 607-619: the Deck Build Request is put on ppt_queue
SlidesDispatch ==
    /\ spc = "dispatch"
    /\ ppt_queue' = Append(ppt_queue,
            [id |-> next_id, to |-> "ppt", title |-> LessonName(lesson_no),
             filename |-> BuildPptFilename(LessonName(lesson_no), files),
             slides |-> slides_list])
    /\ next_id' = next_id + 1
    /\ spc' = "return"
    /\ UNCHANGED <<slides_json_str, slides_list, slide_titles, slide_error,
                   lesson_results>>
    /\ UNCHANGED <<num_lessons, lesson_no, notSlides>>

\* lines 621-634 and 696-698: after the poll the artifact is returned and
\* collected; the next lesson starts
SlidesReturn ==
    /\ spc = "return"
    /\ \E ready \in BOOLEAN :
          lesson_results' = Append(lesson_results,
             [lesson_name |-> LessonName(lesson_no),
              ppt_path |-> IF ready
                           THEN OutputPath(ppt_queue[Len(ppt_queue)].filename)
                           ELSE None,
              docx_path |-> None,
              saw_file |-> ready])
    /\ IF lesson_no < num_lessons
       THEN lesson_no' = lesson_no + 1 /\ spc' = "generate"
       ELSE lesson_no' = lesson_no /\ spc' = "done"
    /\ slides_json_str' = ""
    /\ slides_list' = <<>>
    /\ UNCHANGED <<slide_titles, slide_error, ppt_queue, next_id>>
    /\ UNCHANGED <<num_lessons, notSlides>>

SlidesNext ==
    SlidesGenerate \/ SlidesParse \/ SlidesTrack \/ SlidesDispatch \/ SlidesReturn

-----------------------------------------------------------------------------
(* generate: utils/llm.py, lines 19-69                                     *)

\* line 19: the default of max_retries, which no caller overrides
max_retries == 3

\* str(status) of a three-digit status
StatusStr(status) ==
    CharAt(Digits, (status \div 100) + 1) \o CharAt(Digits, ((status \div 10) % 10) + 1)
        \o CharAt(Digits, (status % 10) + 1)

\* line 40: the statuses that are retried
RetriedStatuses == {502, 503, 504}

\* other statuses the router answers with
OtherStatuses == {400, 429, 500}

\* response.text() of an error response
BodyOf(status) == "status " \o StatusStr(status)

\* the completion of a well-formed 200 response
Completion == "Rome was founded in 753 BC."

\* str(e) of the exceptions of a request: a 200 response whose body is not
\* JSON or lacks the keys of line 39, and a connection that fails
BrokenBodyErrors == {"Expecting value: line 1 column 1 (char 0)", "'choices'"}
ConnectionErrors == {"Cannot connect to host router.huggingface.co:443"}

\* lines 42, 55, 62: attempt < max_retries - 1
HasNextAttempt(k) == k < max_retries - 1

\* lines 43, 56, 63: wait_time = 2 ** attempt
Backoff(k) == 2 ^ k

\* lines 48, 60, 67, without the leading symbols
ServerErrorText(status) ==
    "Error " \o StatusStr(status) \o " after " \o Str(max_retries)
        \o " attempts: Server temporarily unavailable"
TimeoutText == "Request timeout after " \o Str(max_retries) \o " attempts (120 seconds each)"
ConnectionErrorText(e) ==
    "Connection error after " \o Str(max_retries) \o " attempts: " \o e

\* line 52
OtherStatusText(status) == "Error " \o StatusStr(status) \o ": " \o Prefix(BodyOf(status), 200)

LlmIdle ==
    /\ llm_pc = "off"
    /\ llm_attempt = 0
    /\ llm_return = ""
    /\ llm_log = <<>>
    /\ llm_sleeps = <<>>

\* line 31: the for loop starts with attempt 0
LlmInit ==
    /\ num_lessons = 0
    /\ lesson_no = 0
    /\ evidence = ""
    /\ llm_pc = "request"
    /\ llm_attempt = 0
    /\ llm_return = ""
    /\ llm_log = <<>>
    /\ llm_sleeps = <<>>

\* lines 42-48, 55-60, 62-67: sleep and go round again, or return the text
RetryOrReturn(outcome, text) ==
    /\ llm_log' = Append(llm_log, outcome)
    /\ IF HasNextAttempt(llm_attempt)
       THEN /\ llm_sleeps' = Append(llm_sleeps, Backoff(llm_attempt))
            /\ llm_attempt' = llm_attempt + 1
            /\ llm_pc' = "request"
            /\ UNCHANGED llm_return
       ELSE /\ llm_return' = text
            /\ llm_pc' = "returned"
            /\ UNCHANGED <<llm_attempt, llm_sleeps>>
    /\ UNCHANGED notLlm

\* what line 39 returns: the value of the content field
ReturnContent(outcome, content) ==
    /\ llm_log' = Append(llm_log, outcome)
    /\ llm_return' = content
    /\ llm_pc' = "returned"
    /\ UNCHANGED <<llm_attempt, llm_sleeps, notLlm>>

\* lines 36-39: status 200, the body carries a completion
LlmOk ==
    /\ llm_pc = "request"
    /\ ReturnContent([kind |-> "ok", status |-> 200], Completion)

\* lines 36-39: status 200, the content field of the body is null
LlmNullContent ==
    /\ llm_pc = "request"
    /\ ReturnContent([kind |-> "null content", status |-> 200], None)

\* lines 36-39 and 61-67: status 200, response.json() or the subscripts raise
LlmBrokenBody ==
    /\ llm_pc = "request"
    /\ \E e \in BrokenBodyErrors :
          RetryOrReturn([kind |-> "broken body", status |-> 200], ConnectionErrorText(e))

\* lines 40-48: status 502, 503 or 504
LlmServerError ==
    /\ llm_pc = "request"
    /\ \E status \in RetriedStatuses :
          RetryOrReturn([kind |-> "status", status |-> status], ServerErrorText(status))

\* lines 49-52: any other status
LlmOtherStatus ==
    /\ llm_pc = "request"
    /\ \E status \in OtherStatuses :
          ReturnContent([kind |-> "status", status |-> status], OtherStatusText(status))

\* lines 54-60: asyncio.TimeoutError
LlmTimeout ==
    /\ llm_pc = "request"
    /\ RetryOrReturn([kind |-> "timeout", status |-> 0], TimeoutText)

\* lines 61-67: any other exception of the request
LlmConnectionError ==
    /\ llm_pc = "request"
    /\ \E e \in ConnectionErrors :
          RetryOrReturn([kind |-> "connection", status |-> 0], ConnectionErrorText(e))

LlmNext ==
    \/ LlmOk \/ LlmNullContent \/ LlmBrokenBody \/ LlmServerError \/ LlmOtherStatus
    \/ LlmTimeout \/ LlmConnectionError

-----------------------------------------------------------------------------
(* task_cmd and route_task (bot/main.py, lines 73-165) with review_request *)
(* (agents/request_reviewer_agent.py)                                      *)

\* the upper-case letter of each lower-case letter
ToUpper == [c \in {CharAt(LowerLetters, i) : i \in 1..26} |-> CharAt(UpperLetters, Find(LowerLetters, c))]

UpperChar(c) == IF c \in DOMAIN ToUpper THEN ToUpper[c] ELSE c

RECURSIVE Upper(_)
\* s.upper()
Upper(s) == IF Len(s) = 0 THEN s ELSE UpperChar(CharAt(s, 1)) \o Upper(Suffix(s, 1))

\* s.startswith(prefix)
StartsWith(s, prefix) == Prefix(s, Len(prefix)) = prefix

\* a Python value with its type: the items of result_queue are strings and
\* dicts, and generate called without await yields a coroutine object
StrValue(text) == [type |-> "str", value |-> text]
DictValue(to) == [type |-> "dict", value |-> to]
CoroutineValue == [type |-> "coroutine", value |-> "generate"]
NoValue == [type |-> "NoneType", value |-> ""]

\* request_reviewer_agent.py line 63: response = generate(prompt, ...): generate
\* is a coroutine function (utils/llm.py line 19) and the call is not awaited
ReviewerResponse(request) == CoroutineValue

\* lines 66-76: the last line starting with the prefix, stripped; "" if none
LastLineWith(lines, prefix) ==
    LET hits == {i \in 1..Len(lines) : StartsWith(Upper(Strip(lines[i])), prefix)}
    IN  IF hits = {} THEN ""
        ELSE Strip(lines[CHOOSE i \in hits : \A j \in hits : j <= i])

\* lines 98-101, shortened to its heading and the reason
RejectionMessage(reason) == "Request Rejected: Not History-Related\n\n" \o reason

AttributeErrorText == "'coroutine' object has no attribute 'strip'"

NoReview == [ran |-> FALSE, raised |-> FALSE, approved |-> FALSE, message |-> ""]

\* is_history_related (lines 19-104) under review_request (107-123):
\* response.strip() at line 66 needs a string
review_request(request) ==
    LET response == ReviewerResponse(request)
    IN  IF response.type # "str"
        THEN [ran |-> TRUE, raised |-> TRUE, approved |-> FALSE,
              message |-> AttributeErrorText]
        ELSE LET lines == SplitAll(Strip(response.value), "\n")
                 verdict_line == LastLineWith(lines, "VERDICT:")
                 reason_line == LastLineWith(lines, "REASON:")
                 is_approved == Contains(Upper(verdict_line), "APPROVED")
                 reason == IF reason_line # ""
                           THEN Strip(Suffix(reason_line, Find(reason_line, ":")))
                           ELSE "No reason provided"
             IN  [ran |-> TRUE, raised |-> FALSE, approved |-> is_approved,
                  message |-> IF is_approved THEN "Request approved: " \o reason
                              ELSE RejectionMessage(reason)]

\* main.py line 86, with every message taken for the final one
IsFinalAny(msg) == TRUE

\* main.py line 86: isinstance(msg, str)
IsFinal(msg) == msg.type = "str"

\* what the users type
QueryMenu == {"3 lessons on Rome", "write me a sorting function"}

\* main.py lines 130, 143, 153, without the leading symbols
ReviewingText == "Reviewing your request..."
ValidatedText == "Request validated - Processing your history task..."
ResultText(final_result) == "**Result:**\n" \o final_result

\* planner_agent.py lines 793 and 807: what the planner answers a task with
PlannerOutputs(task) == {"Request: " \o task, ErrorOutput("'list' object has no attribute 'get'")}

\* bounds: commands and calls in flight, deck-builder messages
MaxCallers == 2
MaxSideMessages == 2

Callers == 1..MaxCallers

NoCall ==
    [pc |-> "off", kind |-> "", query |-> "", review |-> NoReview, sent |-> <<>>,
     queued |-> FALSE, got |-> <<>>, skipped |-> <<>>, final_result |-> NoValue]

BotIdle ==
    /\ calls = <<>>
    /\ side_count = 0
    /\ getters = <<>>

\* on_ready has run: the queues are empty and no command has been given
BotInit ==
    /\ num_lessons = 0
    /\ lesson_no = 0
    /\ evidence = ""
    /\ calls = [c \in Callers |-> NoCall]
    /\ side_count = 0
    /\ getters = <<>>

BotFrame == UNCHANGED notBot

\* main.py lines 125-130: a user gives the command; the acknowledgement is sent
TaskCmd(c) ==
    /\ calls[c].pc = "off"
    /\ \E query \in QueryMenu :
          calls' = [calls EXCEPT ![c] = [@ EXCEPT !.pc = "review",
                                                  !.kind = "task_cmd",
                                                  !.query = query,
                                                  !.sent = <<ReviewingText>>]]
    /\ UNCHANGED <<task_queue, result_queue, side_count, getters>>
    /\ BotFrame

\* main.py lines 133-143: the review, then the rejection and return, or the
\* second acknowledgement; an exception of review_request ends the handler
TaskCmdReview(c) ==
    /\ calls[c].pc = "review"
    /\ LET review_result == review_request(calls[c].query)
       IN  calls' = [calls EXCEPT ![c] =
              IF review_result.raised
              THEN [@ EXCEPT !.pc = "raised", !.review = review_result]
              ELSE IF ~review_result.approved
              THEN [@ EXCEPT !.pc = "done", !.review = review_result,
                             !.sent = Append(@, review_result.message)]
              ELSE [@ EXCEPT !.pc = "route", !.review = review_result,
                             !.sent = Append(@, ValidatedText)]]
    /\ UNCHANGED <<task_queue, result_queue, side_count, getters>>
    /\ BotFrame

\* main.py line 73: route_task is called with a task
RouteTaskCall(c) ==
    /\ calls[c].pc = "off"
    /\ \E task \in QueryMenu :
          calls' = [calls EXCEPT ![c] = [@ EXCEPT !.pc = "route",
                                                  !.kind = "route_task",
                                                  !.query = task]]
    /\ UNCHANGED <<task_queue, result_queue, side_count, getters>>
    /\ BotFrame

\* asyncio.Queue.get on result_queue when it is empty: the caller is appended
\* to the getters and suspended; otherwise it goes on to take the item
AfterGetCall(c, queue, pc) == IF Len(queue) = 0 THEN "blocked" ELSE pc

GettersAfterGetCall(c, queue) == IF Len(queue) = 0 THEN Append(getters, c) ELSE getters

\* asyncio.Queue.put on result_queue: the first suspended getter is woken
Woken(cs) ==
    IF Len(getters) = 0 THEN cs
    ELSE [cs EXCEPT ![Head(getters)] = [@ EXCEPT !.pc = "wait"]]

GettersAfterPut == IF Len(getters) = 0 THEN getters ELSE Tail(getters)

\* main.py lines 79-82: await task_queue.put(task), which does not suspend on
\* an unbounded queue, and the first result_queue.get()
RoutePut(c) ==
    /\ calls[c].pc = "route"
    /\ task_queue' = Append(task_queue, calls[c].query)
    /\ calls' = [calls EXCEPT ![c] = [@ EXCEPT !.pc = AfterGetCall(c, result_queue, "wait"),
                                               !.queued = TRUE]]
    /\ getters' = GettersAfterGetCall(c, result_queue)
    /\ UNCHANGED <<result_queue, side_count>>
    /\ BotFrame

\* main.py line 82: a caller that was woken finds result_queue empty again and
\* is suspended again
RouteBlock(c) ==
    /\ calls[c].pc = "wait"
    /\ Len(result_queue) = 0
    /\ calls' = [calls EXCEPT ![c] = [@ EXCEPT !.pc = "blocked"]]
    /\ getters' = Append(getters, c)
    /\ UNCHANGED <<task_queue, result_queue, side_count>>
    /\ BotFrame

\* main.py lines 81-91: one round of the while loop: the message is taken and
\* either returned or dropped, and then get() is called again; lines 148-153:
\* task_cmd sends what route_task returned
RouteGet(c) ==
    /\ calls[c].pc = "wait"
    /\ Len(result_queue) > 0
    /\ LET msg == Head(result_queue)
       IN  /\ calls' = [calls EXCEPT ![c] =
                 IF IsFinal(msg)
                 THEN [@ EXCEPT !.pc = "returned",
                                !.got = Append(@, msg),
                                !.final_result = msg,
                                !.sent = IF calls[c].kind = "task_cmd"
                                         THEN Append(@, ResultText(msg.value)) ELSE @]
                 ELSE [@ EXCEPT !.pc = AfterGetCall(c, Tail(result_queue), "wait"),
                                !.got = Append(@, msg),
                                !.skipped = Append(@, msg)]]
           /\ getters' = IF IsFinal(msg) THEN getters
                         ELSE GettersAfterGetCall(c, Tail(result_queue))
    /\ result_queue' = Tail(result_queue)
    /\ UNCHANGED <<task_queue, side_count>>
    /\ BotFrame

\* planner_agent.py lines 800-810, taken as one step: a task is taken and its
\* output, a string, is put on result_queue
BotPlannerServe ==
    /\ Len(task_queue) > 0
    /\ \E out \in PlannerOutputs(Head(task_queue)) :
          result_queue' = Append(result_queue, StrValue(out))
    /\ task_queue' = Tail(task_queue)
    /\ calls' = Woken(calls)
    /\ getters' = GettersAfterPut
    /\ UNCHANGED side_count
    /\ BotFrame

\* the deck-builder (agents/ppt_agent.py) puts a dict addressed to the
\* planner on result_queue
PptAgentReport ==
    /\ side_count < MaxSideMessages
    /\ result_queue' = Append(result_queue, DictValue("planner"))
    /\ side_count' = side_count + 1
    /\ calls' = Woken(calls)
    /\ getters' = GettersAfterPut
    /\ UNCHANGED task_queue
    /\ BotFrame

BotNext ==
    \/ \E c \in Callers :
          \/ TaskCmd(c) \/ TaskCmdReview(c) \/ RouteTaskCall(c) \/ RoutePut(c)
          \/ RouteBlock(c) \/ RouteGet(c)
    \/ BotPlannerServe
    \/ PptAgentReport

\* the parts added after the first five, not running
ExtraIdle == ReportIdle /\ SlidesIdle /\ LlmIdle /\ BotIdle

-----------------------------------------------------------------------------
(* Specifications                                                          *)

\* the revision loop: every answer of the Generation Service to the fact-check
\* prompt is possible, drafts are long, plans of up to MaxLessonsRev lessons
InitRevision ==
    /\ RevInit(MaxLessonsRev, {GateTexts}, {{1400}}, {LessonEvidence})
    /\ GatherIdle /\ DeckIdle /\ PlannerIdle /\ GateIdle /\ ExtraIdle

SpecRevision == InitRevision /\ [][RevNext]_vars

\* the revision loop: the Gate answers GO or NO-GO, drafts of either length,
\* plans of up to MaxLessonsWin lessons
InitWindow ==
    /\ RevInit(MaxLessonsWin, {{GateGo, GateNoGo}}, {DraftLens}, {{ArticleEvidence}})
    /\ GatherIdle /\ DeckIdle /\ PlannerIdle /\ GateIdle /\ ExtraIdle

SpecWindow == InitWindow /\ [][RevNext]_vars

\* the revision loop: the Gate answers GO or an answer that is neither GO nor
\* NO-GO
InitUnsure ==
    /\ RevInit(MaxLessonsRev, {UnsureTexts}, {{1400}}, {{ArticleEvidence}})
    /\ GatherIdle /\ DeckIdle /\ PlannerIdle /\ GateIdle /\ ExtraIdle

SpecUnsure == InitUnsure /\ [][RevNext]_vars

\* evidence gathering over the lessons of one job
InitGather == GatherInit /\ RevIdle /\ DeckIdle /\ PlannerIdle /\ GateIdle /\ ExtraIdle

SpecGather == InitGather /\ [][GatherNext]_vars

\* documents, deck hand-off and poll over the lessons of one job, with the
\* deck-builder running beside it
InitDeck == DeckInit /\ GatherIdle /\ RevIdle /\ PlannerIdle /\ GateIdle /\ ExtraIdle

SpecDeck == InitDeck /\ [][DeckNext]_vars

\* the planner loop serving the tasks route_task queues
InitPlanner == PlannerInit /\ GatherIdle /\ RevIdle /\ DeckIdle /\ GateIdle /\ ExtraIdle

SpecPlanner == InitPlanner /\ [][PlannerNext]_vars

\* calls of fact_checker_agent with every evidence of the menu
InitGate == GateInit /\ GatherIdle /\ RevIdle /\ DeckIdle /\ PlannerIdle /\ ExtraIdle

SpecGate == InitGate /\ [][GateNext]_vars

\* the lessons of one job, one after the other, then the quiz and the report
InitReport ==
    /\ ReportInit
    /\ GatherIdle /\ DeckIdle /\ PlannerIdle /\ GateIdle /\ SlidesIdle /\ LlmIdle
    /\ BotIdle

SpecReport == InitReport /\ [][ReportNext]_vars

\* slide generation and hand-off over the lessons of one job
InitSlides ==
    /\ SlidesInit
    /\ GatherIdle /\ RevIdle /\ DeckIdle /\ PlannerIdle /\ GateIdle /\ ReportIdle
    /\ LlmIdle /\ BotIdle

SpecSlides == InitSlides /\ [][SlidesNext]_vars

\* the steps of a job that write shared_context: evidence gathering, the
\* revision loop with its records, and slide generation, each over the
\* lessons of a plan
InitContext == InitGather \/ InitRevision \/ InitSlides

ContextNext == GatherNext \/ RevNext \/ SlidesNext

SpecContext == InitContext /\ [][ContextNext]_vars

\* one call of generate, under every sequence of outcomes of its requests
InitLlm ==
    /\ LlmInit
    /\ GatherIdle /\ RevIdle /\ DeckIdle /\ PlannerIdle /\ GateIdle /\ ReportIdle
    /\ SlidesIdle /\ BotIdle

SpecLlm == InitLlm /\ [][LlmNext]_vars

\* slash commands and calls of route_task, with the planner and the
\* deck-builder putting their messages on result_queue
InitBot ==
    /\ BotInit
    /\ GatherIdle /\ RevIdle /\ DeckIdle /\ PlannerIdle /\ GateIdle /\ ReportIdle
    /\ SlidesIdle /\ LlmIdle

SpecBot == InitBot /\ [][BotNext]_vars

-----------------------------------------------------------------------------
C5_SlidingWindow ==
    LET n == Len(full_summaries)
    IN  /\ Len(lesson_summaries) <= 2
        /\ Len(lesson_summaries) = Min(n, 2)
        /\ \A i \in 1..Len(lesson_summaries) : lesson_summaries[i].len <= SummaryCut
        /\ n >= 3 =>
              /\ Len(lesson_summaries) = 2
              /\ lesson_summaries[1] = [name |-> LessonName(n - 1), lesson |-> n - 1,
                                        rev |-> full_summaries[n - 1].rev,
                                        len |-> Min(full_summaries[n - 1].len, SummaryCut)]
              /\ lesson_summaries[2] = [name |-> LessonName(n), lesson |-> n,
                                        rev |-> full_summaries[n].rev,
                                        len |-> Min(full_summaries[n].len, SummaryCut)]

\* C5 witness: three lessons are processed, the first was evicted, and a
\* draft longer than the cut is kept truncated.
C5_Witness ==
    /\ Len(full_summaries) = 3
    /\ Len(lesson_summaries) = 2
    /\ lesson_summaries[1].lesson = 2
    /\ full_summaries[3].len > SummaryCut
    /\ lesson_summaries[2].len = SummaryCut

\* the normalized key of a topic as written in the plan: trimmed, lower-cased
NormKey(t) == Lower(Strip(t))

\* C3: within one job the research adapter is called at most once per
\* normalized topic, the cache keeps exactly what that first call returned
\* (an article or a failure string), and every cache hit hands back that text.
C3_CacheIdempotence ==
    /\ \A k \in DOMAIN fetch_count : fetch_count[k] <= 1
    /\ DOMAIN evidence_cache = DOMAIN first_text
    /\ \A k \in DOMAIN evidence_cache : evidence_cache[k] = first_text[k]
    /\ last_lookup.hit =>
          /\ last_lookup.key \in DOMAIN first_text
          /\ last_lookup.text = first_text[last_lookup.key]
          /\ fetch_count[last_lookup.key] = 1

\* C3 witness: in a later lesson a topic written differently from its first
\* occurrence is served from the cache, and what is served is the failure
\* string the first call returned.
C3_Witness ==
    /\ lesson_no = 2
    /\ last_lookup.hit
    /\ last_lookup.topic = "PARIS"
    /\ last_lookup.text = FailureFor("Paris")

\* the normalized key of every topic a plan can name
KeyOfTopic == [t \in {TopicMaster[i] : i \in 1..Len(TopicMaster)} |-> NormKey(t)]

\* the places of the lesson's topic list where a normalized key occurs first
FirstPlaces ==
    LET keys == [i \in 1..Len(topics) |-> KeyOfTopic[topics[i]]]
    IN  {i \in 1..Len(topics) : \A j \in 1..(i - 1) : keys[j] # keys[i]}

\* C4: the topics a lesson processes are exactly the first 5 that are
\* distinct under trim + lower-case, each as first written (trimmed), in
\* first-seen order; the loop looks up or researches these and nothing else.
C4_TopicCap ==
    gpc \in {"loop", "rest"} =>
        LET firsts == FirstPlaces
            rank == [i \in firsts |-> Cardinality({j \in firsts : j <= i})]
        IN  /\ Len(unique_topics) = Min(Cardinality(firsts), MAX_WIKI_TOPICS)
            /\ \A r \in 1..Len(unique_topics) :
                  \E i \in firsts : rank[i] = r /\ unique_topics[r] = Strip(topics[i])
            /\ processed = SubSeq(unique_topics, 1, Len(processed))
            /\ Len(processed) <= MAX_WIKI_TOPICS
            /\ (gpc = "rest" => processed = unique_topics)
            /\ Cardinality(DOMAIN fetch_count) <= MAX_WIKI_TOPICS * lesson_no

\* C4 witness: a lesson with 6 distinct topics (one of them written twice) has
\* gathered its evidence, and 5 topics were processed.
C4_Witness ==
    /\ gpc = "rest"
    /\ Len(topics) = 8
    /\ Cardinality(FirstPlaces) = 6
    /\ Len(processed) = MAX_WIKI_TOPICS

\* C6: a lesson checks for its deck at most 60 times and sleeps at most 60
\* times (30 time units); it leaves the poll with ppt_ready set only if a
\* check found the file, and without it only after 60 checks; every returned
\* artifact has a ppt_path exactly when a check found the file.
C6_PollBounded ==
    /\ polls <= POLL_ATTEMPTS
    /\ sleeps <= POLL_ATTEMPTS
    /\ sleeps <= polls
    /\ dpc = "return" =>
          /\ ppt_ready = saw_file
          /\ (~saw_file => polls = POLL_ATTEMPTS /\ sleeps = POLL_ATTEMPTS)
    /\ \A i \in 1..Len(lesson_results) :
          (lesson_results[i].ppt_path # None) = lesson_results[i].saw_file
    /\ (dpc \in {"quiz", "sources", "done"} => Len(lesson_results) = num_lessons)

\* C6 witness: the deck never appeared, 60 checks were made, and the lesson
\* returned an artifact without a deck path.
C6_Witness ==
    /\ dpc = "start"
    /\ lesson_no = 2
    /\ Len(lesson_results) = 1
    /\ lesson_results[1].ppt_path = None
    /\ ~lesson_results[1].saw_file
    /\ lesson_results[1].lesson_name \notin {"", None}

\* C8: build_ppt_filename changes nothing under outputs/ and returns the
\* first of <slug>.pptx, <slug>-1.pptx, <slug>-2.pptx, ... that names no
\* existing file: a name that is not in use, and the same name again as
\* long as outputs/ is unchanged.
C8_FilenameUnused ==
    [][(dpc = "dispatch" /\ dpc' = "poll") =>
          /\ files' = files
          /\ ppt_filename' \notin files
          /\ \E k \in 0..Cardinality(files) :
                /\ ppt_filename' = Candidate(Slugify(lesson_name), k) \o ".pptx"
                /\ \A j \in 0..(k - 1) :
                      (Candidate(Slugify(lesson_name), j) \o ".pptx") \in files]_vars

\* C8 witness: the base name and the name with -1 were taken, and the
\* request was queued under the name with -2.
C8_Witness ==
    /\ dpc = "poll"
    /\ {"lesson-1-rome.pptx", "lesson-1-rome-1.pptx"} \subseteq files
    /\ ppt_filename = "lesson-1-rome-2.pptx"
    /\ lesson_name = "Lesson 1 - ROME!"

\* C9 as stated: no write under outputs/ goes to a path at which a file
\* already exists.
C9_NoOverwrite == ~last_write.replaced

\* C7: planner_agent is always at a position of its loop; every task taken
\* has exactly one entry put on result_queue once its job is over, in the
\* order the tasks were queued; the entry is the error string when the job
\* raised and the report or the plan failure text when it did not; what is
\* still on result_queue is the tail of what was put.
C7_FailureContained ==
    /\ ppc \in {"get", "intent", "plan", "lesson", "quiz", "report", "put", "task_done"}
    /\ taken = Len(task_log) - Len(task_queue)
    /\ Len(served) = IF ppc \in {"get", "task_done"} THEN taken ELSE taken - 1
    /\ \A i \in 1..Len(served) :
          /\ served[i].task = task_log[i]
          /\ served[i].output # NoOutput
          /\ IF served[i].raised
             THEN \E e \in ExceptionTexts : served[i].output = ErrorOutput(e)
             ELSE \/ served[i].output = PlanFailure
                  \/ \E n \in 1..MaxLessonsPlan :
                        served[i].output = Report(served[i].task, n)
    /\ Len(result_queue) <= Len(served)
    /\ \A j \in 1..Len(result_queue) :
          result_queue[j] = served[Len(served) - Len(result_queue) + j].output
    /\ (ppc \in RaisingSteps \cup {"report"} => ~raised)

\* C7 witness: the first job raised and its error string was put; the planner
\* then took the second task and put its report.
C7_Witness ==
    /\ Len(served) = 2
    /\ served[1].raised
    /\ served[1].output = ErrorOutput("'list' object has no attribute 'get'")
    /\ ~served[2].raised
    /\ served[2].output = Report(task_log[2], 2)
    /\ ppc = "get"

\* C10: a call of fact_checker_agent whose evidence is empty, or shorter than
\* 20 characters once stripped, makes no generate call and returns the text
\* with "Verdict: UNKNOWN".
C10_EmptyEvidenceShortCircuit ==
    (fc_runs > 0 /\ (fc_evidence = "" \/ Len(Strip(fc_evidence)) < 20)) =>
        /\ generate_calls = 0
        /\ (fpc = "idle" =>
              /\ Contains(fc_return, "Verdict: UNKNOWN")
              /\ ~Contains(fc_return, "Fact-Checker Result:"))

\* C10 witness: a call with 19 characters of evidence between blanks has
\* returned the UNKNOWN text without a generate call.
C10_Witness ==
    /\ fpc = "idle"
    /\ fc_runs > 0
    /\ fc_evidence = "  " \o ShortText \o "\n\n"
    /\ Len(fc_evidence) >= 20
    /\ fc_return = NoEvidenceVerdict
    /\ generate_calls = 0

\* C11 as stated: once _gather_evidence has returned to _process_lesson, the
\* evidence is never blank, and it is the placeholder when the topic list was
\* empty or every block collected for the lesson holds only a failure string.
C11_PlaceholderEvidence ==
    gpc = "rest" =>
        LET failed(b) == Contains(b, "[britannica] No results for")
                            /\ ~Contains(b, "Article Used:")
        IN  /\ Strip(evidence) # ""
            /\ ((\A i \in 1..Len(evidence_parts) : failed(evidence_parts[i]))
                   => evidence = PlaceholderEvidence)

\* C12: a lesson whose Gate answer is still not GO after the 4th regeneration
\* goes on: the draft handed to the summaries and to create_docx is the 4th
\* regenerated one, the record appended to fact_check_stats has the verdict
\* "WARNING (tried 4 revisions)", and every lesson before the current one
\* has left exactly one record and one full summary.
C12_CapWithoutGo ==
    /\ rpc \in {"draft", "fact_check", "loop", "recheck"} =>
          /\ Len(fact_check_stats) = lesson_no - 1
          /\ Len(full_summaries) = lesson_no - 1
    /\ (rpc = "persist" /\ revision_attempt = 4 /\ ~SaysGo(fact_check_result)) =>
          /\ regens = 4
          /\ summary = [lesson |-> lesson_no, rev |-> 4, len |-> summary.len]
          /\ Len(full_summaries) = lesson_no
          /\ full_summaries[lesson_no] = summary
          /\ lesson_summaries[Len(lesson_summaries)].rev = 4
          /\ lesson_summaries[Len(lesson_summaries)].lesson = lesson_no
          /\ Len(fact_check_stats) = lesson_no
          /\ fact_check_stats[lesson_no].verdict = "WARNING (tried 4 revisions)"
          /\ fact_check_stats[lesson_no].details = fact_check_result

\* C12 witness: the first lesson hit the cap on a NO-GO and was recorded as a
\* warning with its 4th regenerated draft; the second lesson is being drafted.
C12_Witness ==
    /\ lesson_no = 2
    /\ rpc = "fact_check"
    /\ Len(fact_check_stats) = 1
    /\ fact_check_stats[1].verdict = "WARNING (tried 4 revisions)"
    /\ is_no_go(fact_check_stats[1].details)
    /\ full_summaries[1].rev = 4

C14_PlaceholderOnMalformed ==
    (spc \in {"titles", "dispatch", "return", "aborted"}
        /\ slides_json_str \notin GoodSlideTexts) =>
        /\ spc # "aborted"
        /\ slide_error = ""
        /\ slides_list = <<PlaceholderSlide>>

\* C15: a job whose plan has no lessons returns the failure text and nothing
\* else: it runs no lesson, makes no research and no Gate call and puts
\* nothing on the deck build queue; the quiz and the report are reached only
\* with a plan of one lesson or more.
C15_NoLessonsNoWork ==
    /\ (ppc \in {"lesson", "quiz", "report"} => num_lessons > 0)
    /\ (ppc = "put" /\ ~raised /\ num_lessons = 0) =>
          /\ output = PlanFailure
          /\ job_calls = [lessons |-> 0, research |-> 0, gate |-> 0, decks |-> 0]
    /\ \A i \in 1..Len(served) :
          (~served[i].raised /\ served[i].plan = 0) =>
              /\ served[i].output = PlanFailure
              /\ served[i].calls.lessons = 0
              /\ served[i].calls.research = 0
              /\ served[i].calls.gate = 0
              /\ served[i].calls.decks = 0
    /\ \A i \in 1..Len(served) :
          served[i].output = PlanFailure => served[i].plan = 0

\* C15 witness: a job with an empty plan has put the failure text on
\* result_queue, and a job with lessons has been served as well.
C15_Witness ==
    /\ Len(served) = 2
    /\ served[1].plan = 0
    /\ served[1].output = PlanFailure
    /\ ~served[1].raised
    /\ served[2].calls.decks = 2
    /\ ppc = "get"

\* C16 as stated: whatever the requests come back with, generate makes at
\* most 3 of them, sleeps only between two requests, and what it returns is
\* a string.
C16_BoundedNeverRaises ==
    /\ Len(llm_log) <= 3
    /\ llm_attempt <= 2
    /\ Len(llm_sleeps) <= 2
    /\ Len(llm_sleeps) = (IF llm_pc = "returned" THEN Len(llm_log) - 1 ELSE Len(llm_log))
    /\ llm_pc \in {"request", "returned"}
    /\ (llm_pc = "returned" => llm_return # None /\ llm_return # "")

\* C17 as stated: a request that is not the last one and fails with a status
\* from 500 to 599 or with a timeout is followed by a sleep of 2^k seconds
\* (k the attempt, from 0) and by another request; a request answered with
\* another error status is the last one.
C17_TransientRetried ==
    \A i \in 1..Len(llm_log) :
        LET k == i - 1
            transient == \/ llm_log[i].kind = "timeout"
                         \/ llm_log[i].kind = "status" /\ llm_log[i].status \in 500..599
        IN  /\ (transient /\ k < 2) =>
                  /\ Len(llm_sleeps) >= i
                  /\ llm_sleeps[i] = 2 ^ k
                  /\ (llm_pc = "returned" => Len(llm_log) > i)
            /\ (llm_log[i].kind = "status" /\ llm_log[i].status \in 400..499) =>
                  /\ i = Len(llm_log)
                  /\ llm_pc = "returned"
                  /\ Len(llm_sleeps) = i - 1

\* C18: the lessons of a job run one after the other: while lesson k is
\* anywhere between its first step and its return (its deck poll included),
\* exactly the artifacts of lessons 1..k-1 have been collected, so lesson k+1
\* cannot have begun before lesson k returned and no two lessons are in
\* progress; after the last lesson every artifact has been collected; and the
\* collected artifacts are in plan order.
C18_SequentialLessons ==
    /\ dpc \in {"start", "docx", "dispatch", "poll", "return"} =>
          Len(lesson_results) = lesson_no - 1
    /\ dpc \in {"quiz", "sources", "done"} =>
          lesson_no = num_lessons /\ Len(lesson_results) = num_lessons
    /\ lesson_no \in 1..num_lessons
    /\ \A i \in 1..Len(lesson_results) : lesson_results[i].lesson = i

\* C18 witness: the second lesson is polling for its deck after the first
\* lesson polled to the end without seeing its own
C18_Witness ==
    /\ dpc = "poll"
    /\ lesson_no = 2
    /\ polls > 0
    /\ Len(lesson_results) = 1
    /\ lesson_results[1].lesson = 1
    /\ ~lesson_results[1].saw_file

\* C19 as stated: a command whose review did not approve the request never
\* puts it on task_queue, and once the handler has ended the rejection
\* message of the review is what the user was sent after the acknowledgement.
C19_Gating ==
    \A c \in Callers :
        (calls[c].kind = "task_cmd" /\ ~calls[c].review.approved) =>
            /\ ~calls[c].queued
            /\ calls[c].pc \in {"done", "raised"} =>
                  /\ Len(calls[c].sent) = 2
                  /\ calls[c].sent[2] = calls[c].review.message
                  /\ StartsWith(calls[c].sent[2], "Request Rejected")

\* C20: what route_task returns is a string, the last message it took from
\* result_queue; every message it took before is a non-string and was
\* dropped; a call that has taken only non-strings is still waiting.
C20_ResultFiltering ==
    \A c \in Callers :
        /\ \A i \in 1..Len(calls[c].skipped) : calls[c].skipped[i].type # "str"
        /\ calls[c].pc = "returned" =>
              /\ calls[c].final_result.type = "str"
              /\ calls[c].got = Append(calls[c].skipped, calls[c].final_result)
        /\ calls[c].pc \in {"wait", "blocked"} =>
              /\ calls[c].final_result = NoValue
              /\ calls[c].got = calls[c].skipped
        /\ (calls[c].got # <<>> /\ calls[c].got = calls[c].skipped) =>
              calls[c].pc \in {"wait", "blocked"}

\* C20 witness: a call of route_task dropped a dict and then returned a string
C20_Witness ==
    \E c \in Callers :
        /\ calls[c].pc = "returned"
        /\ Len(calls[c].skipped) > 0
        /\ calls[c].skipped[1].type = "dict"
        /\ calls[c].final_result.type = "str"

\* C21 as stated: a lesson whose first Gate response is not GO, is not NO-GO
\* and has an empty or "None" warnings field leaves the loop without a single
\* regeneration.
C21_EarlyExit ==
    (/\ rpc \in {"recheck", "persist"}
     /\ ~SaysGo(first_result)
     /\ ~is_no_go(first_result)
     /\ WarningsField(first_result) \in {"", "None"})
        => regens = 0

\* C22: every lesson that has been through the loop has left exactly one
\* record in fact_check_stats, the records are in lesson order, none is added
\* while a lesson is drafted or checked, and the details of the lesson's
\* record are the Gate's last response for it, not an earlier one.
C22_OneRecordPerLesson ==
    /\ Len(fact_check_stats) =
          (IF rpc \in {"persist", "done"} THEN lesson_no ELSE lesson_no - 1)
    /\ \A i \in 1..Len(fact_check_stats) : fact_check_stats[i].lesson = LessonName(i)
    /\ rpc \in {"persist", "done"} =>
          fact_check_stats[lesson_no].details = fact_check_result

\* C22 witness: the second lesson has left its record after a regeneration,
\* and the Gate's last response for it differs from its first
C22_Witness ==
    /\ rpc = "persist"
    /\ lesson_no = 2
    /\ Len(fact_check_stats) = 2
    /\ regens >= 1
    /\ first_result # fact_check_result
    /\ fact_check_stats[2].details = fact_check_result

\* a is b or the beginning of b
IsPrefix(a, b) == Len(a) <= Len(b) /\ SubSeq(b, 1, Len(a)) = a

\* C23: no step of any lesson removes, reorders or rewrites an element of
\* full_summaries, slide_titles, sources or fact_check_stats (each list after
\* a step begins with the list before it), the evidence cache keeps every key
\* with its value, and full_summaries has one entry per lesson that has been
\* through the revision loop.
C23_AppendOnly ==
    [][/\ IsPrefix(full_summaries, full_summaries')
       /\ IsPrefix(slide_titles, slide_titles')
       /\ IsPrefix(sources, sources')
       /\ IsPrefix(fact_check_stats, fact_check_stats')
       /\ \A k \in DOMAIN evidence_cache :
             k \in DOMAIN evidence_cache' /\ evidence_cache'[k] = evidence_cache[k]
       /\ rpc' # "off" =>
             Len(full_summaries') =
                (IF rpc' \in {"persist", "done"} THEN lesson_no' ELSE lesson_no' - 1)]_vars

\* C23 witness: two lessons have been through the loop and each has left a
\* full summary, a verdict record and a source
C23_Witness ==
    /\ rpc = "done"
    /\ Len(full_summaries) = 2
    /\ Len(fact_check_stats) = 2
    /\ Len(sources) = 2
    /\ sources[1].lesson = LessonName(1)
    /\ sources[2].lesson = LessonName(2)

\* C24 as stated: a call of route_task returns an output the planner made for
\* the task that call submitted, never the output of another call's task.
C24_RightRequester ==
    \A c \in Callers :
        calls[c].pc = "returned" =>
            calls[c].final_result.value \in PlannerOutputs(calls[c].query)

\* C25 as stated: no two Deck Build Requests waiting for the deck-builder
\* carry the same filename, and a lesson that found its deck file (ppt_ready)
\* did not find it while its own request, the last one queued, was still
\* waiting to be taken by the deck-builder.
C25_DeckAttribution ==
    /\ \A i, j \in 1..Len(ppt_queue) :
          i # j => ppt_queue[i].filename # ppt_queue[j].filename
    /\ (dpc = "return" /\ ppt_ready) =>
          \A i \in 1..Len(ppt_queue) : ppt_queue[i].id # next_id - 1

\* C26 as stated: a record of fact_check_stats carries a WARNING verdict only
\* if the lesson's draft was regenerated 4 times and the Gate's last response
\* did not say GO.
C26_WarningMeansCap ==
    /\ \A i \in 1..Len(fact_check_stats) :
          IsWarning(fact_check_stats[i].verdict) =>
              /\ fact_check_stats[i].verdict = "WARNING (tried 4 revisions)"
              /\ ~SaysGo(fact_check_stats[i].details)
    /\ (rpc = "persist" /\ IsWarning(fact_check_stats[lesson_no].verdict)) =>
          regens = max_revision_attempts

\* the number of tests, of the three the report makes, a verdict passes
TalliesOf(verdict) ==
    (IF IsFirstGo(verdict) THEN 1 ELSE 0)
    + (IF IsRevisedGo(verdict) THEN 1 ELSE 0)
    + (IF IsWarning(verdict) THEN 1 ELSE 0)

\* the tally line of the report says count, and is left out for a count of 0
TallyLine(count, text) ==
    /\ count > 0 => \E i \in 1..Len(output_lines) : output_lines[i] = Str(count) \o text
    /\ \A i \in 1..Len(output_lines) :
          Contains(output_lines[i], text) => output_lines[i] = Str(count) \o text

\* C27: every record of fact_check_stats passes exactly one of the report's
\* three tests, so the three counts sum to the number of records, which in
\* the returned report is the number of lessons; the record of a lesson is
\* in the revised tally exactly when its draft was regenerated 1 to 4 times
\* and the Gate's last response said GO.
C27_TallyPartition ==
    /\ \A i \in 1..Len(fact_check_stats) : TalliesOf(fact_check_stats[i].verdict) = 1
    /\ CountVerdicts(fact_check_stats, IsFirstGo)
          + CountVerdicts(fact_check_stats, IsRevisedGo)
          + CountVerdicts(fact_check_stats, IsWarning) = Len(fact_check_stats)
    /\ rpc = "persist" =>
          (IsRevisedGo(fact_check_stats[lesson_no].verdict)
              <=> (regens \in 1..max_revision_attempts /\ SaysGo(fact_check_result)))
    /\ rpc = "returned" =>
          /\ Len(fact_check_stats) = num_lessons
          /\ TallyLine(CountVerdicts(fact_check_stats, IsFirstGo),
                       " lesson(s) verified on first attempt")
          /\ TallyLine(CountVerdicts(fact_check_stats, IsRevisedGo),
                       " lesson(s) revised and approved")
          /\ TallyLine(CountVerdicts(fact_check_stats, IsWarning),
                       " lesson(s) have warnings")

\* C27 witness: the report of a 2-lesson job has been returned with one
\* lesson in the revised tally and the other in the warnings tally.
C27_Witness ==
    /\ rpc = "returned"
    /\ num_lessons = 2
    /\ CountVerdicts(fact_check_stats, IsRevisedGo) = 1
    /\ CountVerdicts(fact_check_stats, IsWarning) = 1
    /\ \E i \in 1..Len(output_lines) : output_lines[i] = "1 lesson(s) revised and approved"
    /\ \E i \in 1..Len(output_lines) : output_lines[i] = "1 lesson(s) have warnings"

\* C28: the draft appended to full_summaries and lesson_summaries and saved
\* as the lesson document is the draft the lesson's last fact_checker_agent
\* call was given: once the loop is reached every draft has been checked, the
\* lesson has had 1 + regenerations calls of the Gate, at most 5, and a
\* regenerated draft waits for its re-check before anything else happens.
C28_CheckedDraft ==
    /\ rpc \in {"loop", "persist"} =>
          /\ checked_summary = summary
          /\ gate_calls = regens + 1
          /\ regens = summary.rev
          /\ gate_calls <= max_revision_attempts + 1
    /\ rpc = "recheck" =>
          /\ checked_summary # summary
          /\ gate_calls = regens
    /\ rpc = "persist" =>
          /\ full_summaries[lesson_no] = checked_summary
          /\ lesson_summaries[Len(lesson_summaries)]
                = TruncatedEntry(LessonName(lesson_no), checked_summary)
    /\ \A i \in 1..Len(full_summaries) : full_summaries[i].lesson = i

\* C28 witness: a lesson's draft has been regenerated 4 times and checked 5
\* times, and the 4th regeneration is the one appended to full_summaries.
C28_Witness ==
    /\ rpc = "persist"
    /\ lesson_no = 2
    /\ regens = max_revision_attempts
    /\ gate_calls = max_revision_attempts + 1
    /\ full_summaries[2] = [lesson |-> 2, rev |-> 4, len |-> 1400]
    /\ checked_summary = full_summaries[2]

\* C29: planner_agent runs one job at a time and in the order of submission:
\* it has taken at most one task more than it has put results, the task it
\* works on and the tasks it has served are the tasks route_task queued, in
\* that order, the tasks still waiting are the rest of them, and the results
\* waiting on result_queue are the last outputs put, in the order of their
\* tasks.
C29_OneJobAtATime ==
    /\ taken - Len(served) = (IF ppc \in {"get", "task_done"} THEN 0 ELSE 1)
    /\ taken <= Len(task_log)
    /\ task_queue = SubSeq(task_log, taken + 1, Len(task_log))
    /\ \A i \in 1..Len(served) : served[i].task = task_log[i]
    /\ taken > 0 => task_str = task_log[taken]
    /\ \E k \in 0..Len(served) :
          result_queue = [i \in 1..(Len(served) - k) |-> served[k + i].output]

\* C29 witness: two different tasks have been served, and both results wait
\* on result_queue, the first task's result in front.
C29_Witness ==
    /\ Len(served) = 2
    /\ task_log = <<"the Nile", "3 lessons on Rome">>
    /\ served[1].task = "the Nile"
    /\ served[2].task = "3 lessons on Rome"
    /\ ~served[1].raised /\ ~served[2].raised
    /\ served[1].plan = 2
    /\ result_queue = <<served[1].output, served[2].output>>

\* C30: a job runs one lesson (one research round, one first Gate call, one
\* deck request) per lesson of the Unit Plan, and the report lists as many,
\* whatever count was taken from the request; that count is 1 by default and
\* is used as it comes.
C30_LessonCountFollowsPlan ==
    /\ job_calls.lessons <= num_lessons
    /\ job_calls.decks = job_calls.lessons
    /\ job_calls.gate = job_calls.lessons
    /\ ppc \in {"quiz", "report"} => job_calls.lessons = num_lessons
    /\ \A i \in 1..Len(served) :
          ~served[i].raised =>
              /\ served[i].calls.lessons = served[i].plan
              /\ served[i].calls.decks = served[i].plan
              /\ served[i].calls.gate = served[i].plan
              /\ served[i].output = IF served[i].plan = 0 THEN PlanFailure
                                    ELSE Report(served[i].task, served[i].plan)
    /\ IntentCount(IntentAbsent) = 1
    /\ IntentCount(IntentText("many")) = 1
    /\ IntentCount(IntentInt(0)) = 0
    /\ IntentCount(IntentText("5")) = 5

\* C30 witness: the second job of a run was asked for 5 lessons, its plan has
\* 2, and it is about to write its report after 2 lessons.
C30_Witness ==
    /\ Len(served) = 1
    /\ ppc = "report"
    /\ intent_lessons = 5
    /\ num_lessons = 2
    /\ job_calls.lessons = 2
    /\ job_calls.decks = 2

====
